---------------------------- MODULE Spec2Model ----------------------------
(***************************************************************************)
(* A model of the cw-axolotl command line tool: the deployment strategies  *)
(* (cw_cli/core/deployment.py), the framework descriptors                  *)
(* (cw_cli/core/framework.py), the manifest builder                        *)
(* (cw_cli/core/templating.py), resource validation                        *)
(* (cw_cli/core/resources.py) and override merging                         *)
(* (cw_cli/core/configuration.py).                                         *)
(*                                                                         *)
(* Python values are records [t, n, e, s, d]: t is the Python type, n the  *)
(* integer (or the mantissa of a float n / 10^e), s the text of a str as a *)
(* sequence of symbols, d the mapping of a dict.  A symbol is one          *)
(* character ("8", ".", "-") or a run of letters taken as a unit ("Gi").   *)
(***************************************************************************)
EXTENDS Integers, Sequences, FiniteSets, TLC

VARIABLES
    job,            \* the TrainingJob handed to deploy()
    pc,             \* position of deploy(): validate, configmap, loop, applying, sleep, done
    step,           \* loop index i of GRPODeploymentStrategy.deploy (0-based)
    service_names,  \* the local list service_names of deploy()
    cluster,        \* the cluster: resource name -> the document applied under it
    events,         \* history: console prints, kubectl calls and sleeps, in order
    result,         \* the DeploymentResult returned by deploy(), NoResult before
    res_in,         \* argument of validate_resources
    res_out,        \* its return value ("none" before the call)
    mo_config,      \* config_data argument of merge_overrides
    mo_overrides,   \* overrides argument of merge_overrides
    mo_out,         \* its return value (NoDict before the call)
    mo_twice,       \* merge_overrides(mo_out, mo_overrides) (NoDict before the call)
    cmd,            \* the command line of a command function
    cpc,            \* the position of the command function
    exit_code,      \* the status the process exits with (NoExit while it runs)
    printed,        \* the kinds of message the command has printed
    wait_time,      \* wait_time of _follow_job_logs
    polls,          \* kubectl get pods calls issued by _follow_job_logs
    observed,       \* the phases among Running, Succeeded, Failed its polls saw
    terminal_poll,  \* the poll that first saw Succeeded or Failed with no
                    \* Running seen before it (0: none)
    log_calls,      \* kubectl logs calls issued, by kind
    log_failures,   \* kubectl logs calls that exited non-zero
    queries,        \* get_status_data calls of the watch loop
    renders,        \* layouts the watch loop has shown
    watched,        \* time the watch loop has slept
    emitted,        \* the raw documents printed, in order
    interrupted,    \* Ctrl+C arrived during the status command
    nodes,          \* the items of kubectl get nodes
    describe_results, \* describe_results of resources_command
    report,         \* the availability column and the summary it prints
    unreachable,    \* the nodes whose kubectl describe raises
    get_nodes_calls, \* kubectl get nodes calls issued
    describe_calls, \* kubectl describe node calls issued, by node name
    pending,        \* the describe tasks submitted to the pool and not started
    in_flight,      \* the nodes whose describe call is running
    completed,      \* the completed futures as_completed has not yielded yet
    frameworks,     \* FrameworkRegistry._frameworks
    registrations,  \* history: the register calls, in order
    lookup,         \* the last get_framework call and what it returned
    listed,         \* the list object a list_frameworks call gave its caller
    k8s,            \* delete: the resources in the cluster
    deletes,        \* delete: the kubectl delete calls issued, in order
    answers,        \* delete: what the user typed at the confirmation prompts
    cw_resources,   \* _force_delete_resources: the resources offered
    choice,         \* _force_delete_resources: the user's selection
    argv,           \* the process: sys.argv after the program name
    stack           \* the process: the call stack of the restart command

vars == <<job, pc, step, service_names, cluster, events, result,
          res_in, res_out, mo_config, mo_overrides, mo_out, mo_twice,
          cmd, cpc, exit_code, printed,
          wait_time, polls, observed, terminal_poll, log_calls, log_failures,
          queries, renders, watched, emitted, interrupted,
          nodes, describe_results, report,
          unreachable, get_nodes_calls, describe_calls, pending, in_flight, completed,
          frameworks, registrations, lookup, listed,
          k8s, deletes, answers, cw_resources, choice, argv, stack>>

deployVars == <<job, pc, step, service_names, cluster, events, result>>
resVars == <<res_in, res_out>>
mergeVars == <<mo_config, mo_overrides, mo_out, mo_twice>>

commandVars == <<cmd, cpc, exit_code, printed>>
logsVars == <<wait_time, polls, observed, terminal_poll, log_calls, log_failures>>

statusVars == <<queries, renders, watched, emitted, interrupted>>

fetchVars == <<unreachable, get_nodes_calls, describe_calls, pending, in_flight, completed>>
inventoryVars == <<nodes, describe_results, report, fetchVars>>

registryVars == <<frameworks, registrations, lookup, listed>>

\* The state of the command functions other than the training commands, and
\* the framework registry.
deleteVars == <<k8s, deletes, answers, cw_resources, choice>>

processVars == <<argv, stack>>

cliVars ==
    <<commandVars, logsVars, statusVars, inventoryVars, registryVars, deleteVars, processVars>>

\* Everything but the state of one command function.
outsideLogs == <<deployVars, resVars, mergeVars, statusVars, inventoryVars, registryVars, deleteVars, processVars>>
outsideStatus == <<deployVars, resVars, mergeVars, logsVars, inventoryVars, registryVars, deleteVars, processVars>>
outsideInventory == <<deployVars, resVars, mergeVars, logsVars, statusVars, registryVars, deleteVars, processVars>>
outsideRegistry ==
    <<deployVars, resVars, mergeVars, commandVars, logsVars, statusVars, inventoryVars,
      deleteVars,
      processVars>>
outsideDelete ==
    <<deployVars, resVars, mergeVars, logsVars, statusVars, inventoryVars, registryVars, processVars>>
outsideProcess ==
    <<deployVars, resVars, mergeVars, logsVars, statusVars, inventoryVars, registryVars,
      deleteVars>>

\* Everything outside a deployment.
otherVars == <<resVars, mergeVars, cliVars>>

-----------------------------------------------------------------------------
(* Bounds of the model.                                                    *)

MaxStrLen == 2      \* longest str drawn as an input of the pure functions
MaxInt == 2         \* largest int drawn as an input of the pure functions
MaxArgs == 3           \* most arguments after the configuration path
RecursionLimit == 20   \* the depth of the call stack at which a call raises RecursionError
HandlerDepth == 3      \* the frames an except clause needs for its print
MaxListMutations == 1   \* most mutations a caller makes of one returned list
MaxRegisters == 3   \* most register calls after the construction of a registry
MaxGpuNodes == 11   \* most nodes with accelerators in a cluster
MaxRefreshes == 5   \* most refreshes of a watch loop in one run
MaxLogFailures == 1 \* most kubectl logs calls that exit non-zero in one run

-----------------------------------------------------------------------------
(* Python values.                                                          *)

EmptyDict == <<>>

IntV(i) == [t |-> "int", n |-> i, e |-> 0, s |-> <<>>, d |-> EmptyDict]
StrV(x) == [t |-> "str", n |-> 0, e |-> 0, s |-> x, d |-> EmptyDict]
FloatV(m, k) == [t |-> "float", n |-> m, e |-> k, s |-> <<>>, d |-> EmptyDict]
BoolV(b) == [t |-> "bool", n |-> IF b THEN 1 ELSE 0, e |-> 0, s |-> <<>>, d |-> EmptyDict]
DictV(f) == [t |-> "dict", n |-> 0, e |-> 0, s |-> <<>>, d |-> f]

\* dict[key] = value on a copy.
DictSet(f, k, v) == [x \in (DOMAIN f) \cup {k} |-> IF x = k THEN v ELSE f[x]]

Digits == <<"0", "1", "2", "3", "4", "5", "6", "7", "8", "9">>

DigitSet == {Digits[i] : i \in 1..10}

DigitVal(c) == (CHOOSE i \in 1..10 : Digits[i] = c) - 1

AllDigits(x) == \A i \in 1..Len(x) : x[i] \in DigitSet

RECURSIVE DigitsValue(_)
DigitsValue(x) ==
    IF x = <<>> THEN 0
    ELSE 10 * DigitsValue(SubSeq(x, 1, Len(x) - 1)) + DigitVal(x[Len(x)])

RECURSIVE NatToStr(_)
NatToStr(i) ==
    IF i < 10 THEN <<Digits[i + 1]>>
    ELSE NatToStr(i \div 10) \o <<Digits[(i % 10) + 1]>>

IntToStr(i) == IF i < 0 THEN <<"-">> \o NatToStr(-i) ELSE NatToStr(i)

RECURSIVE Pow10(_)
Pow10(k) == IF k = 0 THEN 1 ELSE 10 * Pow10(k - 1)

Sign(x) == IF x # <<>> /\ x[1] \in {"-", "+"} THEN x[1] ELSE ""

Unsigned(x) == IF Sign(x) = "" THEN x ELSE Tail(x)

\* int(str) succeeds: an optional sign and one or more decimal digits.
IntLiteral(x) == Unsigned(x) # <<>> /\ AllDigits(Unsigned(x))

IntLiteralValue(x) ==
    IF Sign(x) = "-" THEN -DigitsValue(Unsigned(x)) ELSE DigitsValue(Unsigned(x))

DotPositions(x) == {i \in 1..Len(x) : x[i] = "."}

\* float(str) succeeds: sign, digits with at most one ".", at least one digit.
FloatLiteral(x) ==
    LET u == Unsigned(x) IN
    /\ \A i \in 1..Len(u) : u[i] \in DigitSet \cup {"."}
    /\ Cardinality(DotPositions(u)) <= 1
    /\ \E i \in 1..Len(u) : u[i] \in DigitSet

RECURSIVE Normalize(_, _)
Normalize(m, k) == IF k > 0 /\ m % 10 = 0 THEN Normalize(m \div 10, k - 1) ELSE FloatV(m, k)

FloatLiteralValue(x) ==
    LET u == Unsigned(x)
        dots == DotPositions(u)
        p == IF dots = {} THEN Len(u) + 1 ELSE CHOOSE i \in dots : TRUE
        whole == SubSeq(u, 1, p - 1)
        frac == SubSeq(u, p + 1, Len(u))
        m == DigitsValue(whole \o frac)
    IN Normalize(IF Sign(x) = "-" THEN -m ELSE m, Len(frac))

\* Python truthiness of a value.
Truthy(v) ==
    CASE v.t = "int" -> v.n # 0
      [] v.t = "float" -> v.n # 0
      [] v.t = "bool" -> v.n # 0
      [] v.t = "str" -> v.s # <<>>
      [] v.t = "dict" -> DOMAIN v.d # {}
      [] OTHER -> FALSE

\* int(v) raises ValueError or TypeError.
IntRaises(v) ==
    CASE v.t = "str" -> ~IntLiteral(v.s)
      [] v.t \in {"int", "float", "bool"} -> FALSE
      [] OTHER -> TRUE

\* int(v) when it does not raise; a float is truncated toward zero.
PyInt(v) ==
    CASE v.t = "str" -> IntLiteralValue(v.s)
      [] v.t = "float" ->
            IF v.n < 0 THEN -((-v.n) \div Pow10(v.e)) ELSE v.n \div Pow10(v.e)
      [] OTHER -> v.n

\* float(v) raises ValueError or TypeError.
FloatRaises(v) ==
    CASE v.t = "str" -> ~FloatLiteral(v.s)
      [] v.t \in {"int", "float", "bool"} -> FALSE
      [] OTHER -> TRUE

\* float(v) when it does not raise.
PyFloat(v) ==
    CASE v.t = "str" -> FloatLiteralValue(v.s)
      [] v.t = "float" -> v
      [] OTHER -> FloatV(v.n, 0)

\* The decimal text of a float: repr(float).
FloatToStr(v) ==
    LET a == IF v.n < 0 THEN -v.n ELSE v.n
        whole == NatToStr(a \div Pow10(v.e))
        fracv == a % Pow10(v.e)
        fracs == NatToStr(fracv)
        pad == [i \in 1..(v.e - Len(fracs)) |-> "0"]
    IN (IF v.n < 0 THEN <<"-">> ELSE <<>>) \o whole \o <<".">>
          \o (IF v.e = 0 THEN <<"0">> ELSE pad \o fracs)

\* str(v)
PyStr(v) ==
    CASE v.t = "str" -> v.s
      [] v.t = "int" -> IntToStr(v.n)
      [] v.t = "float" -> FloatToStr(v)
      [] v.t = "bool" -> IF v.n = 1 THEN <<"True">> ELSE <<"False">>
      [] OTHER -> <<"{}">>

-----------------------------------------------------------------------------
(* YAML text of a mapping of scalars: yaml.dump and yaml.safe_load.        *)

\* Every key a configuration document of the model may hold, in the sorted
\* order yaml.dump writes them (sort_keys defaults to True).
KeyOrder ==
    <<"base_model", "cpu", "gpu", "gradient_accumulation_steps", "image",
      "learning_rate", "memory", "micro_batch_size", "num_epochs",
      "resources", "rl", "run_name">>

OctalDigits == {"0", "1", "2", "3", "4", "5", "6", "7"}

\* The implicit resolver of PyYAML on a plain scalar: the tag it resolves to.
YamlResolve(x) ==
    LET u == Unsigned(x) IN
    IF /\ u # <<>>
       /\ AllDigits(u)
       /\ (u[1] # "0" \/ \A i \in 1..Len(u) : u[i] \in OctalDigits)
    THEN "int"
    ELSE IF /\ u # <<>>
            /\ Cardinality(DotPositions(u)) = 1
            /\ \A i \in 1..Len(u) : u[i] \in DigitSet \cup {"."}
            /\ Len(u) >= 2
    THEN "float"
    ELSE IF x \in {<<"true">>, <<"false">>, <<"True">>, <<"False">>,
                   <<"yes">>, <<"no">>, <<"on">>, <<"off">>}
    THEN "bool"
    ELSE IF x \in {<<>>, <<"null">>, <<"~">>}
    THEN "null"
    ELSE "str"

RECURSIVE OctalValue(_)
OctalValue(x) ==
    IF x = <<>> THEN 0
    ELSE 8 * OctalValue(SubSeq(x, 1, Len(x) - 1)) + DigitVal(x[Len(x)])

\* yaml.dump of one scalar: a str is quoted when its plain form would resolve
\* to another type.
YamlDumpScalar(v) ==
    CASE v.t = "str" ->
            [style |-> IF YamlResolve(v.s) = "str" THEN "plain" ELSE "quoted",
             text |-> v.s]
      [] v.t = "int" -> [style |-> "plain", text |-> IntToStr(v.n)]
      [] v.t = "float" -> [style |-> "plain", text |-> FloatToStr(v)]
      [] v.t = "bool" ->
            [style |-> "plain", text |-> IF v.n = 1 THEN <<"true">> ELSE <<"false">>]
      [] OTHER -> [style |-> "block", text |-> <<"mapping">>]

\* yaml.safe_load of one scalar.
YamlLoadScalar(tok) ==
    IF tok.style = "quoted" THEN StrV(tok.text)
    ELSE IF tok.style = "block" THEN DictV(EmptyDict)
    ELSE LET tag == YamlResolve(tok.text)
             u == Unsigned(tok.text)
         IN CASE tag = "int" ->
                    LET a == IF Len(u) > 1 /\ u[1] = "0" THEN OctalValue(u)
                             ELSE DigitsValue(u)
                    IN IntV(IF Sign(tok.text) = "-" THEN -a ELSE a)
              [] tag = "float" -> FloatLiteralValue(tok.text)
              [] tag = "bool" -> BoolV(tok.text \in {<<"true">>, <<"True">>, <<"yes">>, <<"on">>})
              [] tag = "null" -> DictV(EmptyDict)
              [] OTHER -> StrV(tok.text)

\* yaml.dump(mapping, default_flow_style=False): one line per key, sorted.
YamlDump(f) ==
    LET keys == SelectSeq(KeyOrder, LAMBDA k : k \in DOMAIN f)
    IN [i \in 1..Len(keys) |-> [key |-> keys[i], value |-> YamlDumpScalar(f[keys[i]])]]

\* yaml.safe_load of that text: the mapping it denotes.
YamlLoad(text) ==
    [k \in {text[i].key : i \in 1..Len(text)} |->
        YamlLoadScalar(text[CHOOSE i \in 1..Len(text) : text[i].key = k].value)]

-----------------------------------------------------------------------------
(* Framework descriptors: cw_cli/core/framework.py.                        *)

Frameworks == {"axolotl", "verifiers"}

Grpo == StrV(<<"grpo">>)

\* dict.get(key) == other, where a missing key gives None.
GetEquals(f, k, v) == k \in DOMAIN f /\ f[k] = v

\* Mutant: the discriminator is only required to be present.
AxolotlValidateConfig_presence(config_data, training_type) ==
    IF training_type = "grpo" THEN "rl" \in DOMAIN config_data ELSE TRUE

AxolotlValidateConfig(config_data, training_type) ==
    IF training_type = "grpo" THEN GetEquals(config_data, "rl", Grpo) ELSE TRUE

VerifiersValidateConfig(config_data, training_type) == TRUE

validate_config(fw, config_data, training_type) ==
    IF fw = "axolotl" THEN AxolotlValidateConfig(config_data, training_type)
    ELSE VerifiersValidateConfig(config_data, training_type)

cluster_fields == {"image", "gpu", "cpu", "memory", "resources"}

\* clean_config = config_data.copy(); for each field: clean_config.pop(field, None)
StripFields(f, fields) == [x \in (DOMAIN f) \ fields |-> f[x]]

\* Mutant: the explicit resources block is not removed.
prepare_config_keeps_resources(fw, config_data) ==
    StripFields(config_data, {"image", "gpu", "cpu", "memory"})

prepare_config(fw, config_data) == StripFields(config_data, cluster_fields)

get_configmap_name(fw, training_type) ==
    IF fw = "axolotl"
    THEN (IF training_type = "sft" THEN "cw-axolotl-train-sft-config"
          ELSE "cw-axolotl-train-grpo-config")
    ELSE "cw-verifiers-train-grpo-config"

get_job_name(fw, training_type) ==
    IF fw = "axolotl"
    THEN (IF training_type = "sft" THEN "cw-axolotl-train-sft"
          ELSE "cw-axolotl-train-grpo")
    ELSE "cw-verifiers-train-grpo"

VllmTemplate(fw) ==
    IF fw = "axolotl" THEN "axolotl/grpo/vllm-deployment.yaml"
    ELSE "verifiers/vllm-deployment.yaml"

RewardsTemplate(fw) ==
    IF fw = "axolotl" THEN "axolotl/grpo/rewards-deployment.yaml"
    ELSE "verifiers/rewards-deployment.yaml"

TrainingTemplate(fw) ==
    IF fw = "axolotl" THEN "axolotl/grpo/training-job.yaml"
    ELSE "verifiers/training-job.yaml"

SftTemplate == "axolotl/sft_job.yaml"

\* Mutant: the reward server is listed before the inference server.
get_yaml_templates_swapped(fw, training_type) ==
    IF training_type = "sft" THEN <<SftTemplate>>
    ELSE <<RewardsTemplate(fw), VllmTemplate(fw), TrainingTemplate(fw)>>

get_yaml_templates(fw, training_type) ==
    IF training_type = "sft" THEN <<SftTemplate>>
    ELSE <<VllmTemplate(fw), RewardsTemplate(fw), TrainingTemplate(fw)>>

get_default_image == StrV(<<"ghcr.io/tcapelle/triton_eval:1906">>)

\* The context has no "resources" key.
get_template_context(j) ==
    [framework |-> j.framework,
     training_type |-> j.training_type,
     job_name |-> get_job_name(j.framework, j.training_type),
     configmap_name |-> get_configmap_name(j.framework, j.training_type),
     config_data |-> j.config_data,
     pull_latest |-> j.pull_latest,
     services_only |-> j.services_only,
     image |-> IF "image" \in DOMAIN j.config_data THEN j.config_data["image"]
               ELSE get_default_image]

-----------------------------------------------------------------------------
(* Manifests: cw_cli/utils.py and cw_cli/core/templating.py.               *)

\* A document handed to kubectl.  data is the text under 'config.yaml' of a
\* ConfigMap; containers are the containers of a Job or Deployment.
Doc(kind, name, data, containers) ==
    [kind |-> kind, name |-> name, data |-> data, containers |-> containers]

create_configmap_yaml(config_data, configmap_name) ==
    Doc("ConfigMap", configmap_name,
        YamlDump(StripFields(config_data, cluster_fields)), <<>>)

Tier(gpu, cpu, memory) ==
    DictV([k \in {"nvidia.com/gpu", "cpu", "memory"} |->
              CASE k = "nvidia.com/gpu" -> gpu
                [] k = "cpu" -> cpu
                [] OTHER -> memory])

\* The resource block the manifest templates carry for their container.
TemplateResources ==
    DictV([k \in {"limits", "requests"} |->
              Tier(StrV(<<"8">>), StrV(<<"3", "2">>), StrV(<<"1", "0", "0", "0", "Gi">>))])

\* The manifest templates under kubeconfigs/: one Job or Deployment with one
\* container.
Template(path) ==
    Doc(IF path \in {SftTemplate, TrainingTemplate("axolotl"), TrainingTemplate("verifiers")}
        THEN "Job" ELSE "Deployment",
        path, <<>>,
        <<[image |-> StrV(<<"template-image">>),
           resources |-> TemplateResources,
           env |-> <<>>]>>)

RenderContainer(c, context) ==
    LET c1 == IF "resources" \in DOMAIN context /\ Truthy(context["resources"])
              THEN [c EXCEPT !.resources = context["resources"]] ELSE c
        c2 == IF "image" \in DOMAIN context
              THEN [c1 EXCEPT !.image = context["image"]] ELSE c1
    IN IF "pull_latest" \in DOMAIN context /\ context["pull_latest"]
       THEN [c2 EXCEPT !.env = Append(@, "PULL_LATEST=true")] ELSE c2

render_template(template_path, context) ==
    LET doc == Template(template_path) IN
    IF doc.kind \in {"Job", "Deployment"}
    THEN [doc EXCEPT !.containers =
             [i \in 1..Len(doc.containers) |-> RenderContainer(doc.containers[i], context)]]
    ELSE doc

\* The "limits"/"requests" block built from the gpu, cpu and memory fields.
SynthesizedResources(config_data) ==
    LET present == {k \in {"gpu", "cpu", "memory"} : k \in DOMAIN config_data}
        name(k) == IF k = "gpu" THEN "nvidia.com/gpu" ELSE k
        tier == DictV([r \in {name(k) : k \in present} |->
                          StrV(PyStr(config_data[CHOOSE k \in present : name(k) = r]))])
    IN IF present = {} THEN DictV(EmptyDict)
       ELSE DictV([k \in {"limits", "requests"} |-> tier])

\* Defined next to render_template and called from nowhere.
inject_resources_context(context) ==
    LET config_data == context.config_data
        resources == IF "resources" \in DOMAIN config_data
                     THEN config_data["resources"]
                     ELSE SynthesizedResources(config_data)
    IN [k \in (DOMAIN context) \cup {"resources"} |->
           IF k = "resources" THEN resources ELSE context[k]]

-----------------------------------------------------------------------------
(* Resource validation: cw_cli/core/resources.py.                          *)

GpuKey == "nvidia.com/gpu"

\* tier.get('nvidia.com/gpu') is truthy (a missing key gives None).
GpuTruthy(tier) == GpuKey \in DOMAIN tier /\ Truthy(tier[GpuKey])

\* resources.get(name, {})
TierOf(resources, name) ==
    IF name \in DOMAIN resources.d THEN resources.d[name].d ELSE EmptyDict

validate_resources(resources) ==
    IF resources.t # "dict" THEN FALSE
    ELSE IF "limits" \notin DOMAIN resources.d /\ "requests" \notin DOMAIN resources.d
    THEN FALSE
    ELSE LET limits == TierOf(resources, "limits")
             requests == TierOf(resources, "requests")
         IN IF GpuTruthy(limits) /\ GpuTruthy(requests)
            THEN IF IntRaises(limits[GpuKey]) \/ IntRaises(requests[GpuKey])
                 THEN FALSE
                 ELSE PyInt(limits[GpuKey]) = PyInt(requests[GpuKey])
            ELSE TRUE

-----------------------------------------------------------------------------
(* Deployment strategies: cw_cli/core/deployment.py.                       *)

None == [some |-> FALSE, v |-> <<>>]
Some(x) == [some |-> TRUE, v |-> x]

DeploymentResult(success, job_name, services, error_message) ==
    [success |-> success, job_name |-> job_name, services |-> services,
     error_message |-> error_message]

NoResult == DeploymentResult(FALSE, None, None, None)

Event(ev, tag, what, n) == [ev |-> ev, tag |-> tag, what |-> what, n |-> n]

ConsolePrint(tag, what) == Event("print", tag, what, 0)

\* run_kubectl_command: kubectl apply -f - with the document on stdin, and
\* its return.
KubectlApply(name) == Event("kubectl", "apply", name, 0)
KubectlDone(name, ok) == Event("kubectl_done", IF ok THEN "ok" ELSE "failed", name, 0)

\* What a successful kubectl apply leaves in the cluster.
Applied(cl, doc) == [x \in (DOMAIN cl) \cup {doc.name} |-> IF x = doc.name THEN doc ELSE cl[x]]

service_labels == <<"VLLM Server", "Rewards Server", "Training Job">>

SettleDelay == 10

\* The status of a process the interpreter ends on an unhandled
\* KeyboardInterrupt: killed by SIGINT (reported as 130), or 1.
UnhandledInterruptExit == {1, 130}

\* Mutant: services_only is ignored when the plan is built.
templates_to_deploy_all(j) == get_yaml_templates(j.framework, j.training_type)

\* templates[:-1] if job.services_only else templates
templates_to_deploy(j) ==
    LET templates == get_yaml_templates(j.framework, j.training_type)
    IN IF j.services_only THEN SubSeq(templates, 1, Len(templates) - 1) ELSE templates

\* service_labels[i] if i < len(service_labels) else f"Service {i+1}"
service_name(i) == IF i < Len(service_labels) THEN service_labels[i + 1] ELSE "Service"

\* The document create_and_deploy_configmap hands to kubectl.
ConfigMapDoc(j) ==
    create_configmap_yaml(prepare_config(j.framework, j.config_data),
                          get_configmap_name(j.framework, j.training_type))

\* Mutant: the placement keys are popped from the caller's dict.
config_data_after_prepare_in_place(config_data) == StripFields(config_data, cluster_fields)

\* The caller's dict after prepare_config and create_configmap_yaml: both pop
\* the placement keys from config_data.copy(), so the dict handed in keeps them.
config_data_after_prepare(config_data) == config_data

\* Mutant: a refused apply of the ConfigMap is tried a second time.
create_and_deploy_configmap_retry(j, ok) ==
    [job |-> [j EXCEPT !.config_data = config_data_after_prepare(j.config_data)],
     cluster |-> IF ok THEN Applied(cluster, ConfigMapDoc(j)) ELSE cluster,
     events |-> events \o <<ConsolePrint("creating_configmap", ""),
                            KubectlApply(ConfigMapDoc(j).name),
                            KubectlDone(ConfigMapDoc(j).name, ok)>>
                       \o (IF ok THEN <<>>
                           ELSE <<KubectlApply(ConfigMapDoc(j).name),
                                  KubectlDone(ConfigMapDoc(j).name, ok)>>)]

\* create_and_deploy_configmap: the job, the cluster and the history after it, and
\* its return value ok.
create_and_deploy_configmap(j, ok) ==
    [job |-> [j EXCEPT !.config_data = config_data_after_prepare(j.config_data)],
     cluster |-> IF ok THEN Applied(cluster, ConfigMapDoc(j)) ELSE cluster,
     events |-> events \o <<ConsolePrint("creating_configmap", ""),
                            KubectlApply(ConfigMapDoc(j).name),
                            KubectlDone(ConfigMapDoc(j).name, ok)>>]

\* Mutant: a failed step deletes the config artifact again.
grpo_step_failed_rollback(cl, ev, i) ==
    LET cm == "cw-axolotl-train-grpo-config" IN
    [cluster |-> [x \in (DOMAIN cl) \ {cm} |-> cl[x]],
     events |-> ev \o <<Event("kubectl", "delete", cm, 0), Event("kubectl_done", "ok", cm, 0)>>,
     result |-> [success |-> FALSE, job_name |-> None, services |-> None,
                 error_message |-> Some(<<"Failed to deploy", "VLLM Server">>)]]

\* The failure branch of the GRPO loop: the result is returned and the
\* cluster is left as it is.
grpo_step_failed(cl, ev, i) ==
    [cluster |-> cl,
     events |-> ev,
     result |-> DeploymentResult(FALSE, None, None,
                                 Some(<<"Failed to deploy", service_name(i)>>))]

\* The failure branch of the SFT job apply: a message and the result; the
\* cleanup is a TODO.
sft_job_failed(cl, ev) ==
    [cluster |-> cl,
     events |-> ev \o <<ConsolePrint("job_failed_cleaning_up", "")>>,
     result |-> DeploymentResult(FALSE, None, None, Some(<<"Failed to create Job">>))]

\* Mutant: the validation is evaluated for a services-only deploy too.
grpo_validation_fails_services_too(j) ==
    ~validate_config(j.framework, j.config_data, j.training_type)

\* Whether the GRPO deploy evaluates and fails the framework validation.
grpo_validation_fails(j) ==
    ~j.services_only /\ ~validate_config(j.framework, j.config_data, j.training_type)

\* if i < len(templates_to_deploy) - 1: time.sleep(10)
settles_after(j, i) == i < Len(templates_to_deploy(j)) - 1

IsGrpo == job.training_type = "grpo"
IsSft == job.training_type = "sft"

GrpoValidate ==
    /\ IsGrpo /\ pc = "validate"
    /\ IF grpo_validation_fails(job)
       THEN /\ result' = DeploymentResult(FALSE, None, None,
                                          Some(<<"Configuration validation failed">>))
            /\ pc' = "done"
       ELSE /\ pc' = "configmap"
            /\ UNCHANGED result
    /\ UNCHANGED <<job, step, service_names, cluster, events>>
    /\ UNCHANGED otherVars

GrpoConfigMap ==
    /\ IsGrpo /\ pc = "configmap"
    /\ \E ok \in BOOLEAN :
        LET r == create_and_deploy_configmap(job, ok) IN
        /\ cluster' = r.cluster
        /\ events' = r.events
        /\ IF ~ok
           THEN /\ result' = DeploymentResult(FALSE, None, None,
                                              Some(<<"Failed to create ConfigMap">>))
                /\ pc' = "done"
           ELSE IF Len(get_yaml_templates(job.framework, job.training_type)) < 2
           THEN /\ result' = DeploymentResult(FALSE, None, None,
                                 Some(<<"GRPO requires multiple service templates">>))
                /\ pc' = "done"
           ELSE /\ pc' = "loop"
                /\ UNCHANGED result
    /\ job' = create_and_deploy_configmap(job, TRUE).job
    /\ UNCHANGED <<step, service_names>>
    /\ UNCHANGED otherVars

\* deploy_yaml_template up to the kubectl call: the template may be missing
\* and rendering may raise.
GrpoStepBegin ==
    /\ IsGrpo /\ pc = "loop" /\ step < Len(templates_to_deploy(job))
    /\ LET template == templates_to_deploy(job)[step + 1]
           ev == events \o <<ConsolePrint("deploying", service_name(step))>>
       IN \E outcome \in {"missing", "render_error", "kubectl"} :
            IF outcome = "kubectl"
            THEN /\ events' = ev \o <<KubectlApply(template)>>
                 /\ pc' = "applying"
                 /\ UNCHANGED <<cluster, result>>
            ELSE LET r == grpo_step_failed(cluster,
                              ev \o <<ConsolePrint(outcome, template)>>, step)
                 IN /\ cluster' = r.cluster
                    /\ events' = r.events
                    /\ result' = r.result
                    /\ pc' = "done"
    /\ UNCHANGED <<job, step, service_names>>
    /\ UNCHANGED otherVars

\* The kubectl apply of the step returns.
GrpoStepEnd ==
    /\ IsGrpo /\ pc = "applying"
    /\ LET template == templates_to_deploy(job)[step + 1]
           doc == render_template(template, get_template_context(job))
       IN \E ok \in BOOLEAN :
            IF ok
            THEN /\ cluster' = Applied(cluster, doc)
                 /\ events' = events \o <<KubectlDone(template, TRUE),
                                          ConsolePrint("deployed", service_name(step))>>
                 /\ service_names' = Append(service_names, service_name(step))
                 /\ IF settles_after(job, step)
                    THEN pc' = "sleep" /\ step' = step
                    ELSE pc' = "loop" /\ step' = step + 1
                 /\ UNCHANGED result
            ELSE LET r == grpo_step_failed(cluster,
                              events \o <<KubectlDone(template, FALSE)>>, step)
                 IN /\ cluster' = r.cluster
                    /\ events' = r.events
                    /\ result' = r.result
                    /\ pc' = "done"
                    /\ UNCHANGED <<step, service_names>>
    /\ UNCHANGED job
    /\ UNCHANGED otherVars

\* time.sleep(10) between two steps.
GrpoSettle ==
    /\ IsGrpo /\ pc = "sleep"
    /\ events' = events \o <<ConsolePrint("waiting", ""), Event("sleep", "", "", SettleDelay)>>
    /\ step' = step + 1
    /\ pc' = "loop"
    /\ UNCHANGED <<job, service_names, cluster, result>>
    /\ UNCHANGED otherVars

GrpoFinish ==
    /\ IsGrpo /\ pc = "loop" /\ step = Len(templates_to_deploy(job))
    /\ result' = IF job.services_only
                 THEN DeploymentResult(TRUE, None, Some(service_names), None)
                 ELSE DeploymentResult(TRUE,
                          Some(<<get_job_name(job.framework, job.training_type)>>),
                          Some(service_names), None)
    /\ events' = events \o <<ConsolePrint("success", "")>>
    /\ pc' = "done"
    /\ UNCHANGED <<job, step, service_names, cluster>>
    /\ UNCHANGED otherVars

\* Ctrl+C during time.sleep(10): the KeyboardInterrupt is raised out of
\* deploy(); handle_training_command and the command functions catch
\* Exception only and main() catches nothing, so the interpreter ends the
\* process on the unhandled KeyboardInterrupt.
GrpoSettleInterrupt ==
    /\ IsGrpo /\ pc = "sleep"
    /\ events' = events \o <<ConsolePrint("waiting", ""), Event("interrupt", "sleep", "", 0)>>
    /\ pc' = "interrupted"
    /\ cpc' = "exited"
    /\ exit_code' \in UnhandledInterruptExit
    /\ UNCHANGED <<job, step, service_names, cluster, result>>
    /\ UNCHANGED <<resVars, mergeVars, logsVars, statusVars, inventoryVars, registryVars, deleteVars,
                   processVars, cmd, printed>>

\* handle_training_command after framework.deploy(job) returned: the report
\* of a failed deployment, the hint after a services-only one, or the call
\* of _follow_job_logs_if_requested.
HandlerReturn ==
    /\ pc = "done" /\ cpc = "idle"
    /\ IF ~result.success
       THEN /\ printed' = printed \cup {"deployment_failed"}
            /\ cpc' = "exited"
            /\ exit_code' = 1
       ELSE IF job.services_only
       THEN /\ printed' = printed \cup {"check_services"}
            /\ cpc' = "exited"
            /\ exit_code' = 0
       ELSE /\ cpc' = "follow_logs"
            /\ UNCHANGED <<printed, exit_code>>
    /\ UNCHANGED <<deployVars, resVars, mergeVars, logsVars, statusVars, inventoryVars, registryVars, deleteVars,
                   processVars, cmd>>

SftValidate ==
    /\ IsSft /\ pc = "validate"
    /\ IF ~validate_config(job.framework, job.config_data, job.training_type)
       THEN /\ result' = DeploymentResult(FALSE, None, None,
                                          Some(<<"Configuration validation failed">>))
            /\ pc' = "done"
       ELSE /\ pc' = "configmap"
            /\ UNCHANGED result
    /\ UNCHANGED <<job, step, service_names, cluster, events>>
    /\ UNCHANGED otherVars

SftConfigMap ==
    /\ IsSft /\ pc = "configmap"
    /\ \E ok \in BOOLEAN :
        LET r == create_and_deploy_configmap(job, ok) IN
        /\ cluster' = r.cluster
        /\ events' = r.events
        /\ IF ~ok
           THEN /\ result' = DeploymentResult(FALSE, None, None,
                                              Some(<<"Failed to create ConfigMap">>))
                /\ pc' = "done"
           ELSE IF get_yaml_templates(job.framework, job.training_type) = <<>>
           THEN /\ result' = DeploymentResult(FALSE, None, None,
                                 Some(<<"No YAML templates found for SFT">>))
                /\ pc' = "done"
           ELSE /\ pc' = "loop"
                /\ UNCHANGED result
    /\ job' = create_and_deploy_configmap(job, TRUE).job
    /\ UNCHANGED <<step, service_names>>
    /\ UNCHANGED otherVars

SftJobBegin ==
    /\ IsSft /\ pc = "loop"
    /\ LET template == get_yaml_templates(job.framework, job.training_type)[1]
           ev == events \o <<ConsolePrint("creating_job", "")>>
       IN \E outcome \in {"missing", "render_error", "kubectl"} :
            IF outcome = "kubectl"
            THEN /\ events' = ev \o <<KubectlApply(template)>>
                 /\ pc' = "applying"
                 /\ UNCHANGED <<cluster, result>>
            ELSE LET r == sft_job_failed(cluster, ev \o <<ConsolePrint(outcome, template)>>)
                 IN /\ cluster' = r.cluster
                    /\ events' = r.events
                    /\ result' = r.result
                    /\ pc' = "done"
    /\ UNCHANGED <<job, step, service_names>>
    /\ UNCHANGED otherVars

SftJobEnd ==
    /\ IsSft /\ pc = "applying"
    /\ LET template == get_yaml_templates(job.framework, job.training_type)[1]
           doc == render_template(template, get_template_context(job))
       IN \E ok \in BOOLEAN :
            IF ok
            THEN /\ cluster' = Applied(cluster, doc)
                 /\ events' = events \o <<KubectlDone(template, TRUE), ConsolePrint("success", "")>>
                 /\ result' = DeploymentResult(TRUE,
                                  Some(<<get_job_name(job.framework, job.training_type)>>),
                                  None, None)
                 /\ pc' = "done"
            ELSE LET r == sft_job_failed(cluster,
                              events \o <<KubectlDone(template, FALSE)>>)
                 IN /\ cluster' = r.cluster
                    /\ events' = r.events
                    /\ result' = r.result
                    /\ pc' = "done"
    /\ UNCHANGED <<job, step, service_names>>
    /\ UNCHANGED otherVars

-----------------------------------------------------------------------------
(* The jobs handle_training_command builds and hands to deploy().          *)

EqualResources ==
    DictV([k \in {"limits", "requests"} |->
              DictV([r \in {GpuKey} |-> StrV(<<"4">>)])])

DifferingResources ==
    DictV([k \in {"limits", "requests"} |->
              DictV([r \in {GpuKey} |-> IF k = "limits" THEN StrV(<<"8">>) ELSE StrV(<<"4">>)])])

\* The values each key of a configuration document takes in the model;
\* base_model is required by TrainingConfig.
ConfigValues(k) ==
    CASE k = "base_model" -> {StrV(<<"org/model">>)}
      [] k = "rl" -> {Grpo, StrV(<<"ppo">>)}
      [] k = "gpu" -> {IntV(4), StrV(<<"8">>)}
      [] k = "cpu" -> {StrV(<<"1", "6">>)}
      [] k = "memory" -> {StrV(<<"5", "0", "0", "Gi">>)}
      [] k = "image" -> {StrV(<<"custom-image">>)}
      [] k = "resources" -> {EqualResources, DifferingResources}
      [] k = "learning_rate" -> {FloatV(1, 3)}
      [] k = "run_name" -> {StrV(<<"8">>), StrV(<<"run">>)}
      [] OTHER -> {}

OptionalKeys ==
    <<"rl", "gpu", "cpu", "memory", "image", "resources", "learning_rate", "run_name">>

\* The documents over the first n optional keys: each key absent or present
\* with one of its values.
RECURSIVE ConfigsOver(_)
ConfigsOver(n) ==
    IF n = 0 THEN {[k \in {"base_model"} |-> StrV(<<"org/model">>)]}
    ELSE LET rest == ConfigsOver(n - 1)
             k == OptionalKeys[n]
         IN rest \cup {DictSet(c, k, v) : c \in rest, v \in ConfigValues(k)}

Configs == ConfigsOver(Len(OptionalKeys))

TrainingJob(fw, training_type, config_data, pull_latest, services_only) ==
    [name |-> get_job_name(fw, training_type),
     framework |-> fw,
     training_type |-> training_type,
     config_data |-> config_data,
     pull_latest |-> pull_latest,
     services_only |-> services_only]

\* train_sft_command (axolotl), train_grpo_command (axolotl and verifiers).
Jobs ==
    {TrainingJob("axolotl", "sft", c, p, FALSE) : c \in Configs, p \in BOOLEAN}
    \cup {TrainingJob(fw, "grpo", c, p, so) :
            fw \in Frameworks, c \in Configs, p \in BOOLEAN, so \in BOOLEAN}

NoDict == DictV(EmptyDict)

IdleRes == res_in = NoDict /\ res_out = "none"
IdleMerge ==
    mo_config = EmptyDict /\ mo_overrides = EmptyDict /\ mo_out = NoDict /\ mo_twice = NoDict

\* The process has not exited.
NoExit == -1

NoCmd == [name |-> "none"]

NoLogCalls == [follow |-> 0, final |-> 0]

IdleLogs ==
    /\ wait_time = 0
    /\ polls = 0
    /\ observed = {}
    /\ terminal_poll = 0
    /\ log_calls = NoLogCalls
    /\ log_failures = 0

IdleCommand == cmd = NoCmd /\ cpc = "idle" /\ exit_code = NoExit /\ printed = {}

IdleStatus ==
    queries = 0 /\ renders = 0 /\ watched = 0 /\ emitted = <<>> /\ interrupted = FALSE

IdleInventory ==
    /\ nodes = <<>>
    /\ describe_results = EmptyDict
    /\ report = [rows |-> <<>>, total_gpus_free |-> 0, total_nodes_available |-> 0]
    /\ unreachable = {}
    /\ get_nodes_calls = 0
    /\ describe_calls = EmptyDict
    /\ pending = <<>>
    /\ in_flight = {}
    /\ completed = {}

\* FrameworkRegistry.__init__: the two built-in frameworks are registered.
BuiltinRegistrations ==
    <<[name |-> "axolotl", framework |-> "AxolotlFramework"],
      [name |-> "verifiers", framework |-> "VerifiersFramework"]>>

NoLookup == [name |-> "", result |-> None, after |-> 0]

NoList == [returned |-> FALSE, shares |-> FALSE, items |-> <<>>, mutations |-> 0]

IdleRegistry ==
    /\ frameworks = [name \in {"axolotl", "verifiers"} |->
                        IF name = "axolotl" THEN "AxolotlFramework" ELSE "VerifiersFramework"]
    /\ registrations = BuiltinRegistrations
    /\ lookup = NoLookup
    /\ listed = NoList

NoChoice == [all |-> FALSE, index |-> 0]

IdleDelete ==
    k8s = {} /\ deletes = <<>> /\ answers = <<>> /\ cw_resources = <<>> /\ choice = NoChoice

IdleProcess == argv = <<>> /\ stack = <<>>

IdleCli ==
    IdleCommand /\ IdleLogs /\ IdleStatus /\ IdleInventory /\ IdleRegistry /\ IdleDelete
    /\ IdleProcess

Init ==
    /\ job \in Jobs
    /\ pc = "validate"
    /\ step = 0
    /\ service_names = <<>>
    /\ cluster = EmptyDict
    /\ events = <<>>
    /\ result = NoResult
    /\ IdleRes
    /\ IdleMerge
    /\ IdleCli

Next ==
    \/ GrpoValidate
    \/ GrpoConfigMap
    \/ GrpoStepBegin
    \/ GrpoStepEnd
    \/ GrpoSettle
    \/ GrpoFinish
    \/ SftValidate
    \/ SftConfigMap
    \/ SftJobBegin
    \/ SftJobEnd
    \/ GrpoSettleInterrupt
    \/ HandlerReturn

Spec == Init /\ [][Next]_vars

-----------------------------------------------------------------------------
(* validate_resources applied to resource blocks.                          *)

\* All sequences over a set of symbols, of length at most n.
RECURSIVE Strings(_, _)
Strings(alphabet, n) ==
    IF n = 0 THEN {<<>>}
    ELSE LET shorter == Strings(alphabet, n - 1)
         IN shorter \cup {Append(x, c) : x \in shorter, c \in alphabet}

ResSymbols == {"0", "2", "x"}

\* The accelerator quantities of a tier: YAML integers and quantity strings.
GpuQuantities ==
    {IntV(i) : i \in 0..MaxInt} \cup {StrV(x) : x \in Strings(ResSymbols, MaxStrLen)}

\* A tier without or with an accelerator quantity.
Tiers == {EmptyDict} \cup {[r \in {GpuKey} |-> q] : q \in GpuQuantities}

ResourceBlocks ==
    {DictV(EmptyDict), StrV(<<"x">>)}
    \cup {DictV([k \in {"limits"} |-> DictV(t)]) : t \in Tiers}
    \cup {DictV([k \in {"requests"} |-> DictV(t)]) : t \in Tiers}
    \cup {DictV([k \in {"limits", "requests"} |-> IF k = "limits" THEN DictV(l) ELSE DictV(r)])
            : l \in Tiers, r \in Tiers}

IdleJob == TrainingJob("axolotl", "sft", [k \in {"base_model"} |-> StrV(<<"org/model">>)], FALSE, FALSE)

IdleDeploy ==
    /\ job = IdleJob
    /\ pc = "idle"
    /\ step = 0
    /\ service_names = <<>>
    /\ cluster = EmptyDict
    /\ events = <<>>
    /\ result = NoResult

InitRes ==
    /\ IdleDeploy
    /\ IdleMerge
    /\ IdleCli
    /\ res_in \in ResourceBlocks
    /\ res_out = "none"

ValidateResources ==
    /\ res_out = "none"
    /\ res_out' = IF validate_resources(res_in) THEN "True" ELSE "False"
    /\ UNCHANGED <<res_in, deployVars, mergeVars, cliVars>>

NextRes == ValidateResources

SpecRes == InitRes /\ [][NextRes]_vars

-----------------------------------------------------------------------------
(* merge_overrides: cw_cli/core/configuration.py.                          *)

IntFields == {"gpu", "num_epochs", "micro_batch_size", "gradient_accumulation_steps"}

FloatFields == {"learning_rate"}

\* Mutant: the override is stored as given, without conversion.
Coerce_none(k, v) == v

\* The value merge_overrides stores for an override of key k: int() or
\* float() of it for the known numeric fields, the value itself when the
\* conversion raises ValueError or TypeError.
Coerce(k, v) ==
    IF k \in IntFields
    THEN (IF IntRaises(v) THEN v ELSE IntV(PyInt(v)))
    ELSE IF k \in FloatFields
    THEN (IF FloatRaises(v) THEN v ELSE PyFloat(v))
    ELSE v

\* Mutant: an integer override is added to the integer already configured.
merge_overrides_accumulate(config_data, overrides) ==
    [k \in (DOMAIN config_data) \cup (DOMAIN overrides) |->
        IF k \in DOMAIN overrides
        THEN (IF k \in IntFields /\ ~IntRaises(overrides[k])
                   /\ k \in DOMAIN config_data /\ config_data[k].t = "int"
              THEN IntV(config_data[k].n + PyInt(overrides[k]))
              ELSE Coerce(k, overrides[k]))
        ELSE config_data[k]]

merge_overrides(config_data, overrides) ==
    [k \in (DOMAIN config_data) \cup (DOMAIN overrides) |->
        IF k \in DOMAIN overrides THEN Coerce(k, overrides[k]) ELSE config_data[k]]

prepare_for_deployment(config_data) == StripFields(config_data, cluster_fields)

MergeSymbols == {"8", "0", ".", "x", "-"}

\* The values an override may carry: the strings of the command line and the
\* int, float and bool values parse_overrides makes of them.
OverrideValues ==
    {StrV(x) : x \in Strings(MergeSymbols, MaxStrLen)}
    \cup {IntV(i) : i \in 0..MaxInt}
    \cup {BoolV(TRUE), FloatV(5, 1), FloatV(15, 1)}

OverrideKeys == IntFields \cup FloatFields \cup {"run_name"}

\* One override of any value, or two or three overrides of strings.
OverrideMaps ==
    {EmptyDict}
    \cup {[k \in {a} |-> v] : a \in OverrideKeys, v \in OverrideValues}
    \cup {[k \in {a, b} |-> IF k = a THEN v ELSE w] :
            a \in IntFields, b \in FloatFields \cup {"run_name"},
            v \in {StrV(<<"8">>), StrV(<<"x">>)}, w \in {StrV(<<"0", ".", "8">>), StrV(<<"x">>)}}
    \cup {[k \in {"gpu", "num_epochs", "learning_rate"} |->
              CASE k = "gpu" -> u [] k = "num_epochs" -> v [] OTHER -> w] :
            u \in {StrV(<<"8">>), StrV(<<"x">>)}, v \in {StrV(<<"8">>), StrV(<<"x">>)},
            w \in {StrV(<<"0", ".", "8">>), StrV(<<"x">>)}}

MergeConfigs ==
    {[k \in {"base_model"} |-> StrV(<<"org/model">>)],
     [k \in {"base_model", "gpu", "learning_rate", "run_name"} |->
        CASE k = "gpu" -> IntV(4)
          [] k = "learning_rate" -> FloatV(1, 3)
          [] k = "run_name" -> StrV(<<"run">>)
          [] OTHER -> StrV(<<"org/model">>)],
     [k \in {"base_model", "num_epochs", "rl"} |->
        CASE k = "num_epochs" -> StrV(<<"x">>)
          [] k = "rl" -> Grpo
          [] OTHER -> StrV(<<"org/model">>)]}

InitMerge ==
    /\ IdleDeploy
    /\ IdleRes
    /\ IdleCli
    /\ mo_config \in MergeConfigs
    /\ mo_overrides \in OverrideMaps
    /\ mo_out = NoDict
    /\ mo_twice = NoDict

MergeOverrides ==
    /\ mo_out = NoDict
    /\ mo_out' = DictV(merge_overrides(mo_config, mo_overrides))
    /\ UNCHANGED <<mo_config, mo_overrides, mo_twice, deployVars, resVars, cliVars>>

\* The same override map merged into the merged configuration.
MergeAgain ==
    /\ mo_out # NoDict
    /\ mo_twice = NoDict
    /\ mo_twice' = DictV(merge_overrides(mo_out.d, mo_overrides))
    /\ UNCHANGED <<mo_config, mo_overrides, mo_out, deployVars, resVars, cliVars>>

NextMerge ==
    \/ MergeOverrides
    \/ MergeAgain

SpecMerge == InitMerge /\ [][NextMerge]_vars

-----------------------------------------------------------------------------
(* logs_command and _follow_job_logs: cw_cli/commands.py; the follow of    *)
(* the logs after a deployment: cw_cli/core/commands.py.                   *)

max_wait == 300

PollInterval == 5

CwPrefix == <<"c", "w", "-">>

\* str.startswith
StartsWith(x, p) == Len(x) >= Len(p) /\ SubSeq(x, 1, Len(p)) = p

CwJob == <<"c", "w", "-", "j">>

\* LogsConfig: the job named on the command line (empty: none), --no-follow
\* and --tail.
LogsConfig(job_name, no_follow, tail) ==
    [name |-> "logs", job |-> job_name, no_follow |-> no_follow, tail |-> tail]

LogsCommands ==
    {LogsConfig(j, nf, t) : j \in {<<>>, CwJob, <<"j">>}, nf \in BOOLEAN, t \in {0, 1}}

\* _follow_job_logs_if_requested(result.job_name) after a deployment that
\* succeeded with its training job.
TrainFollow == [name |-> "train", job |-> CwJob, no_follow |-> FALSE, tail |-> 0]

\* What a kubectl get pods of the follower finds: the command or the parse of
\* its output raises, no pod, or the phase of the first pod ("absent": the
\* pod document has no phase).
PollOutcomes ==
    {"error", "empty", "absent", "Pending", "Unknown", "Running", "Succeeded", "Failed"}

TerminalPhases == {"Failed", "Succeeded"}

\* Mutant: the ceiling itself is still polled.
within_ceiling_inclusive(w) == w <= max_wait

\* while wait_time < max_wait
within_ceiling(w) == w < max_wait

\* The command function returns code.
Exits(code) == cpc' = "exited" /\ exit_code' = code

InitLogs ==
    /\ IdleDeploy
    /\ IdleRes
    /\ IdleMerge
    /\ IdleLogs
    /\ IdleStatus
    /\ IdleInventory
    /\ IdleRegistry
    /\ IdleDelete
    /\ IdleProcess
    /\ cmd \in LogsCommands \cup {TrainFollow}
    /\ cpc = "start"
    /\ exit_code = NoExit
    /\ printed = {}

\* logs_command up to its kubectl logs call or its call of _follow_job_logs.
\* With no job named the user picks one of the cw- jobs or none.
LogsSelectJob ==
    /\ cpc = "start" /\ cmd.name = "logs"
    /\ \E chosen \in (IF cmd.job = <<>> THEN {<<>>, CwJob} ELSE {cmd.job}) :
          IF chosen = <<>>
          THEN Exits(1) /\ UNCHANGED printed
          ELSE IF ~StartsWith(chosen, CwPrefix)
          THEN Exits(1) /\ printed' = printed \cup {"not_cw_job"}
          ELSE IF cmd.no_follow
          THEN cpc' = "fetch" /\ UNCHANGED <<exit_code, printed>>
          ELSE IF cmd.tail > 0
          THEN /\ cpc' = "tail_follow"
               /\ printed' = printed \cup {"tailing"}
               /\ UNCHANGED exit_code
          ELSE /\ cpc' = "poll"
               /\ printed' = printed \cup {"waiting_ready"}
               /\ UNCHANGED exit_code
    /\ UNCHANGED <<cmd, logsVars, outsideLogs>>

\* _follow_job_logs_if_requested up to the first poll of _follow_job_logs.
TrainFollowStart ==
    /\ cpc = "start" /\ cmd.name = "train"
    /\ IF cmd.job = <<>>
       THEN Exits(0) /\ UNCHANGED printed
       ELSE /\ cpc' = "poll"
            /\ printed' = printed \cup {"following_for", "waiting_ready"}
            /\ UNCHANGED exit_code
    /\ UNCHANGED <<cmd, logsVars, outsideLogs>>

\* One kubectl get pods of the loop and the branch on what it finds.
Poll ==
    /\ cpc = "poll"
    /\ \E o \in PollOutcomes :
          /\ polls' = polls + 1
          /\ observed' = observed \cup ({o} \cap ({"Running"} \cup TerminalPhases))
          /\ terminal_poll' =
                IF o \in TerminalPhases /\ "Running" \notin observed /\ terminal_poll = 0
                THEN polls + 1 ELSE terminal_poll
          /\ CASE o = "Running" ->
                    /\ printed' = printed \cup {"following"}
                    /\ log_calls' = [log_calls EXCEPT !.follow = @ + 1]
                    /\ cpc' = "follow"
               [] o \in TerminalPhases ->
                    /\ printed' = printed \cup {"finished"}
                    /\ log_calls' = [log_calls EXCEPT !.final = @ + 1]
                    /\ cpc' = "final"
               [] o \in {"absent", "Pending", "Unknown"} ->
                    /\ printed' = printed \cup {"pod_status"}
                    /\ cpc' = "sleep"
                    /\ UNCHANGED log_calls
               [] o = "empty" ->
                    /\ cpc' = "sleep"
                    /\ UNCHANGED <<printed, log_calls>>
               [] OTHER ->
                    /\ printed' = printed \cup {"waiting_error"}
                    /\ cpc' = "sleep"
                    /\ UNCHANGED log_calls
    /\ UNCHANGED <<cmd, exit_code, wait_time, log_failures>>
    /\ UNCHANGED outsideLogs

\* time.sleep(5), wait_time += 5 and the loop test; past the ceiling the
\* timeout message, the return of _follow_job_logs and of its caller.
Sleep ==
    /\ cpc = "sleep"
    /\ wait_time' = wait_time + PollInterval
    /\ IF within_ceiling(wait_time')
       THEN cpc' = "poll" /\ UNCHANGED <<exit_code, printed>>
       ELSE Exits(0) /\ printed' = printed \cup {"timeout"}
    /\ UNCHANGED <<cmd, polls, observed, terminal_poll, log_calls, log_failures>>
    /\ UNCHANGED outsideLogs

\* kubectl logs of the follower exits 0: _follow_job_logs and its caller
\* return.
LogsReturn ==
    /\ cpc \in {"follow", "final"}
    /\ Exits(0)
    /\ UNCHANGED <<cmd, printed, logsVars, outsideLogs>>

\* kubectl logs of the follower exits non-zero: the CalledProcessError is
\* caught by the except Exception of the loop, which goes on.
LogsFail ==
    /\ cpc \in {"follow", "final"}
    /\ log_failures < MaxLogFailures
    /\ log_failures' = log_failures + 1
    /\ printed' = printed \cup {"waiting_error"}
    /\ cpc' = "sleep"
    /\ UNCHANGED <<cmd, exit_code, wait_time, polls, observed, terminal_poll, log_calls>>
    /\ UNCHANGED outsideLogs

\* kubectl logs of logs_command itself (--no-follow, --tail) exits 0.
FetchReturn ==
    /\ cpc \in {"fetch", "tail_follow"}
    /\ Exits(0)
    /\ UNCHANGED <<cmd, printed, logsVars, outsideLogs>>

\* It exits non-zero: except subprocess.CalledProcessError of logs_command.
FetchFail ==
    /\ cpc \in {"fetch", "tail_follow"}
    /\ Exits(1)
    /\ printed' = printed \cup {"failed_logs"}
    /\ UNCHANGED <<cmd, logsVars, outsideLogs>>

\* Ctrl+C during a kubectl call or a sleep: the KeyboardInterrupt passes the
\* except Exception of the loop and is caught by except KeyboardInterrupt of
\* logs_command or of _follow_job_logs_if_requested, whose caller returns 0.
LogsInterrupt ==
    /\ cpc \in {"poll", "sleep", "follow", "final", "fetch", "tail_follow"}
    /\ Exits(0)
    /\ printed' = printed \cup {"stopped"}
    /\ UNCHANGED <<cmd, logsVars, outsideLogs>>

NextLogs ==
    \/ LogsSelectJob
    \/ TrainFollowStart
    \/ Poll
    \/ Sleep
    \/ LogsReturn
    \/ LogsFail
    \/ FetchReturn
    \/ FetchFail
    \/ LogsInterrupt

SpecLogs == InitLogs /\ [][NextLogs]_vars

-----------------------------------------------------------------------------
(* status_command: cw_cli/commands.py; handle_status_output and            *)
(* get_status_data: cw_cli/status.py.                                      *)

RefreshInterval == 2

\* StatusConfig: the job named on the command line (empty: none), --watch
\* and --output.
StatusConfig(job_name, watch, output) ==
    [name |-> "status", job |-> job_name, watch |-> watch, output |-> output]

StatusCommands ==
    {StatusConfig(j, w, o) :
        j \in {<<>>, CwJob, <<"j">>}, w \in BOOLEAN, o \in {"table", "yaml", "json"}}

\* What get_status_data meets: both kubectl calls return and job_data is a
\* document; a kubectl call or the parse raises; Ctrl+C arrives during a
\* kubectl call. Its bare except turns the last two into ({}, {}).
QueryOutcomes == {"found", "raised", "ctrl_c"}

\* not job_data
JobMissing(o) == o # "found"

\* Mutant: only yaml counts as machine-readable.
machine_readable_yaml_only(output) == output = "yaml"

\* output in ["yaml", "json"]
machine_readable(output) == output \in {"yaml", "json"}

\* The two documents printed under "# Job Data" and "# Pod Data".
RawDocuments(output) ==
    <<[doc |-> "job_data", format |-> output], [doc |-> "pod_data", format |-> output]>>

InitStatus ==
    /\ IdleDeploy
    /\ IdleRes
    /\ IdleMerge
    /\ IdleLogs
    /\ IdleStatus
    /\ IdleInventory
    /\ IdleRegistry
    /\ IdleDelete
    /\ IdleProcess
    /\ cmd \in StatusCommands
    /\ cpc = "start"
    /\ exit_code = NoExit
    /\ printed = {}

\* status_command up to its call of handle_status_output.
StatusSelectJob ==
    /\ cpc = "start" /\ cmd.name = "status"
    /\ \E chosen \in (IF cmd.job = <<>> THEN {<<>>, CwJob} ELSE {cmd.job}) :
          IF chosen = <<>>
          THEN Exits(1) /\ UNCHANGED printed
          ELSE IF ~StartsWith(chosen, CwPrefix)
          THEN Exits(1) /\ printed' = printed \cup {"not_cw_job"}
          ELSE cpc' = "query" /\ UNCHANGED <<exit_code, printed>>
    /\ UNCHANGED <<cmd, statusVars, outsideStatus>>

\* handle_status_output from its first get_status_data to the watch loop or
\* its return.
StatusOutput ==
    /\ cpc = "query"
    /\ \E o \in QueryOutcomes :
          /\ interrupted' = (o = "ctrl_c")
          /\ IF JobMissing(o)
             THEN /\ Exits(1)
                  /\ printed' = printed \cup {"not_found"}
                  /\ UNCHANGED emitted
             ELSE IF machine_readable(cmd.output)
             THEN /\ Exits(0)
                  /\ emitted' = emitted \o RawDocuments(cmd.output)
                  /\ UNCHANGED printed
             ELSE IF cmd.watch
             THEN /\ cpc' = "watch_query"
                  /\ printed' = printed \cup {"watching"}
                  /\ UNCHANGED <<exit_code, emitted>>
             ELSE /\ Exits(0)
                  /\ printed' = printed \cup {"layout"}
                  /\ UNCHANGED emitted
    /\ UNCHANGED <<cmd, queries, renders, watched, outsideStatus>>

\* One get_status_data of the watch loop and the live.update of its layout.
WatchQuery ==
    /\ cpc = "watch_query"
    /\ \E o \in QueryOutcomes :
          /\ queries' = queries + 1
          /\ interrupted' = (o = "ctrl_c")
          /\ IF JobMissing(o)
             THEN /\ Exits(1)
                  /\ printed' = printed \cup {"not_found"}
                  /\ UNCHANGED renders
             ELSE /\ cpc' = "watch_sleep"
                  /\ renders' = renders + 1
                  /\ UNCHANGED <<exit_code, printed>>
    /\ UNCHANGED <<cmd, emitted, watched, outsideStatus>>

\* time.sleep(2) of the watch loop.
WatchSleep ==
    /\ cpc = "watch_sleep"
    /\ renders < MaxRefreshes
    /\ watched' = watched + RefreshInterval
    /\ cpc' = "watch_query"
    /\ UNCHANGED <<cmd, exit_code, printed, queries, renders, emitted, interrupted>>
    /\ UNCHANGED outsideStatus

\* Ctrl+C during live.update or time.sleep: except KeyboardInterrupt of the
\* watch loop.
WatchInterrupt ==
    /\ cpc = "watch_sleep"
    /\ interrupted' = TRUE
    /\ Exits(0)
    /\ printed' = printed \cup {"stopped_watching"}
    /\ UNCHANGED <<cmd, queries, renders, emitted, watched, outsideStatus>>

NextStatus ==
    \/ StatusSelectJob
    \/ StatusOutput
    \/ WatchQuery
    \/ WatchSleep
    \/ WatchInterrupt

SpecStatus == InitStatus /\ [][NextStatus]_vars

-----------------------------------------------------------------------------
(* resources_command, the report: cw_cli/commands.py.                      *)

FullNodeThreshold == 8

Max(a, b) == IF a >= b THEN a ELSE b

NoCapacity == <<"0">>

\* An item of kubectl get nodes: the Ready condition, spec.unschedulable,
\* status.capacity["nvidia.com/gpu"] (<<>>: the key is absent), and the
\* accelerators the node has allocated, shown by kubectl describe node.
Node(name, ready, unschedulable, gpu, allocated) ==
    [name |-> name, ready |-> ready, unschedulable |-> unschedulable,
     gpu |-> gpu, allocated |-> allocated]

NodeNames == <<"A", "B", "C">>

NodesNamed(name) ==
    {Node(name, r, u, g, 0) : r \in BOOLEAN, u \in BOOLEAN, g \in {<<>>, NoCapacity}}
    \cup {Node(name, r, u, <<"8">>, a) : r \in BOOLEAN, u \in BOOLEAN, a \in {0, 6, 8}}

Clusters == {<<a, b, c>> : a \in NodesNamed("A"), b \in NodesNamed("B"), c \in NodesNamed("C")}

\* capacity.get("nvidia.com/gpu", "0")
gpu_capacity(node) == IF node.gpu = <<>> THEN NoCapacity ELSE node.gpu

\* gpu_capacity != "0": the node gets a describe call.
HasGpus(node) == gpu_capacity(node) # NoCapacity

\* What get_node_describe_data returns for a node: the describe text, of
\* which the report reads the accelerators allocated, or None.
DescribeText(allocated) == [text |-> TRUE, allocated |-> allocated]
NoText == [text |-> FALSE, allocated |-> 0]

\* The describe texts a join can leave for a cluster: for each node with
\* accelerators the text showing its allocation, or None when the call
\* raised.
DescribeResultsOf(cluster_nodes) ==
    LET gpu_nodes == {i \in 1..Len(cluster_nodes) : HasGpus(cluster_nodes[i])}
    IN {[n \in {cluster_nodes[i].name : i \in gpu_nodes} |->
            LET i == CHOOSE j \in gpu_nodes : cluster_nodes[j].name = n
            IN IF i \in failed THEN NoText ELSE DescribeText(cluster_nodes[i].allocated)]
          : failed \in SUBSET gpu_nodes}

NodeStatus(node) ==
    IF node.unschedulable THEN "SchedulingDisabled"
    ELSE IF ~node.ready THEN "NotReady"
    ELSE "Ready"

\* describe_results.get(node_name) is a text.
Described(node, results) == node.name \in DOMAIN results /\ results[node.name].text

\* gpu_free of the node's row.
gpu_free(node, results) ==
    IF ~HasGpus(node) THEN 0
    ELSE IF Described(node, results)
    THEN Max(0, PyInt(StrV(gpu_capacity(node))) - results[node.name].allocated)
    ELSE 0

\* Mutant: the partial tier is tested before the full-node tier.
availability_partial_first(node, results) ==
    IF NodeStatus(node) # "Ready" THEN "unavailable"
    ELSE IF gpu_free(node, results) > 0 THEN "partial"
    ELSE IF gpu_free(node, results) >= FullNodeThreshold THEN "full_node"
    ELSE IF HasGpus(node) THEN "occupied"
    ELSE "cpu_only"

\* The availability column of the node's row.
availability(node, results) ==
    IF NodeStatus(node) # "Ready" THEN "unavailable"
    ELSE IF gpu_free(node, results) >= FullNodeThreshold THEN "full_node"
    ELSE IF gpu_free(node, results) > 0 THEN "partial"
    ELSE IF HasGpus(node) THEN "occupied"
    ELSE "cpu_only"

\* total_gpus_free after the first n nodes.
RECURSIVE total_gpus_free(_, _, _)
total_gpus_free(cluster_nodes, results, n) ==
    IF n = 0 THEN 0
    ELSE LET node == cluster_nodes[n]
             counted == /\ HasGpus(node)
                        /\ Described(node, results)
                        /\ PyInt(StrV(gpu_capacity(node))) > 0
                        /\ NodeStatus(node) = "Ready"
         IN total_gpus_free(cluster_nodes, results, n - 1)
              + (IF counted THEN gpu_free(node, results) ELSE 0)

NoReport == [rows |-> <<>>, total_gpus_free |-> 0, total_nodes_available |-> 0]

\* The summary table and the summary lines.
Report(cluster_nodes, results) ==
    LET rows == [i \in 1..Len(cluster_nodes) |-> availability(cluster_nodes[i], results)]
    IN [rows |-> rows,
        total_gpus_free |-> total_gpus_free(cluster_nodes, results, Len(cluster_nodes)),
        total_nodes_available |-> Cardinality({i \in 1..Len(rows) : rows[i] = "full_node"})]

InitReport ==
    /\ IdleDeploy
    /\ IdleRes
    /\ IdleMerge
    /\ IdleLogs
    /\ IdleStatus
    /\ IdleRegistry
    /\ IdleDelete
    /\ IdleProcess
    /\ cmd = [name |-> "resources"]
    /\ cpc = "joined"
    /\ exit_code = NoExit
    /\ printed = {}
    /\ nodes \in Clusters
    /\ describe_results \in DescribeResultsOf(nodes)
    /\ report = NoReport
    /\ unreachable = {n \in DOMAIN describe_results : ~describe_results[n].text}
    /\ get_nodes_calls = 1
    /\ describe_calls = [n \in DOMAIN describe_results |-> 1]
    /\ pending = <<>>
    /\ in_flight = {}
    /\ completed = {}

\* resources_command from the join of the describe calls to its return.
ResourcesReport ==
    /\ cpc = "joined"
    /\ report' = Report(nodes, describe_results)
    /\ printed' = printed \cup {"summary"}
    /\ Exits(0)
    /\ UNCHANGED <<cmd, nodes, describe_results, fetchVars, outsideInventory>>

NextReport == ResourcesReport

SpecReport == InitReport /\ [][NextReport]_vars

-----------------------------------------------------------------------------
(* resources_command, the describe calls: cw_cli/commands.py.              *)

PoolLimit == 10

Min(a, b) == IF a <= b THEN a ELSE b

\* Mutant: one worker per node.
max_workers_per_node(gpu_node_names) == Len(gpu_node_names)

\* max_workers=min(10, len(gpu_node_names))
max_workers(gpu_node_names) == Min(PoolLimit, Len(gpu_node_names))

WorkerName(i) == <<"n">> \o NatToStr(i)

\* A cluster of one node without accelerators followed by n nodes of 8
\* accelerators, of which node i has allocated i % 8. In the clusters of one
\* or two such nodes the describe of the first may raise.
ClusterOf(n) ==
    [i \in 1..(n + 1) |->
        IF i = 1 THEN Node(<<"c">>, TRUE, FALSE, NoCapacity, 0)
        ELSE Node(WorkerName(i - 1), TRUE, FALSE, <<"8">>, (i - 1) % 8)]

FetchClusters == {ClusterOf(n) : n \in {0, 1, 2, MaxGpuNodes}}

RECURSIVE SelectSeq2(_, _)
\* The names of the nodes with accelerators among the first n, in order.
SelectSeq2(cluster_nodes, n) ==
    IF n = 0 THEN <<>>
    ELSE IF HasGpus(cluster_nodes[n])
    THEN Append(SelectSeq2(cluster_nodes, n - 1), cluster_nodes[n].name)
    ELSE SelectSeq2(cluster_nodes, n - 1)

gpu_node_names(cluster_nodes) == SelectSeq2(cluster_nodes, Len(cluster_nodes))

NodeNamed(cluster_nodes, name) ==
    cluster_nodes[CHOOSE i \in 1..Len(cluster_nodes) : cluster_nodes[i].name = name]

\* get_node_describe_data(node_name): the name with the describe text, or
\* with None when kubectl raised.
get_node_describe_data(cluster_nodes, node_name, raised) ==
    [node_name |-> node_name,
     describe_text |-> IF raised THEN NoText
                       ELSE DescribeText(NodeNamed(cluster_nodes, node_name).allocated)]

NoCalls(cluster_nodes) ==
    [n \in {cluster_nodes[i].name : i \in 1..Len(cluster_nodes)} |-> 0]

InitFetch ==
    /\ IdleDeploy
    /\ IdleRes
    /\ IdleMerge
    /\ IdleLogs
    /\ IdleStatus
    /\ IdleRegistry
    /\ IdleDelete
    /\ IdleProcess
    /\ cmd = [name |-> "resources"]
    /\ cpc = "start"
    /\ exit_code = NoExit
    /\ printed = {}
    /\ nodes \in FetchClusters
    /\ unreachable \in (IF Len(nodes) \in 2..3 THEN {{}, {nodes[2].name}} ELSE {{}})
    /\ describe_results = EmptyDict
    /\ report = NoReport
    /\ get_nodes_calls = 0
    /\ describe_calls = NoCalls(nodes)
    /\ pending = <<>>
    /\ in_flight = {}
    /\ completed = {}

\* kubectl get nodes, the scan for the nodes with accelerators and the
\* submission of one describe task for each to the pool; kubectl failing
\* ends the command.
GetNodes ==
    /\ cpc = "start" /\ cmd.name = "resources"
    /\ get_nodes_calls' = get_nodes_calls + 1
    /\ \E ok \in BOOLEAN :
          IF ~ok
          THEN /\ Exits(1)
               /\ printed' = printed \cup {"failed_resources"}
               /\ UNCHANGED pending
          ELSE /\ pending' = gpu_node_names(nodes)
               /\ IF gpu_node_names(nodes) # <<>>
                  THEN cpc' = "gather" /\ printed' = printed \cup {"checking"}
                  ELSE cpc' = "joined" /\ UNCHANGED printed
               /\ UNCHANGED exit_code
    /\ UNCHANGED <<cmd, nodes, unreachable, describe_results, report, describe_calls,
                   in_flight, completed, outsideInventory>>

\* A worker of the pool takes the next task and starts its kubectl describe.
WorkerStart ==
    /\ cpc = "gather"
    /\ pending # <<>>
    /\ Cardinality(in_flight) < max_workers(gpu_node_names(nodes))
    /\ in_flight' = in_flight \cup {Head(pending)}
    /\ pending' = Tail(pending)
    /\ describe_calls' = [describe_calls EXCEPT ![Head(pending)] = @ + 1]
    /\ UNCHANGED <<cmd, cpc, exit_code, printed, nodes, unreachable, describe_results,
                   report, get_nodes_calls, completed, outsideInventory>>

\* A kubectl describe ends and its future completes.
WorkerFinish ==
    /\ cpc = "gather"
    /\ \E n \in in_flight :
          /\ in_flight' = in_flight \ {n}
          /\ completed' = completed \cup {get_node_describe_data(nodes, n, n \in unreachable)}
    /\ UNCHANGED <<cmd, cpc, exit_code, printed, nodes, unreachable, describe_results,
                   report, get_nodes_calls, describe_calls, pending, outsideInventory>>

\* as_completed yields a completed future and the main thread stores its
\* text under the name it returned.
Collect ==
    /\ cpc = "gather"
    /\ \E f \in completed :
          /\ completed' = completed \ {f}
          /\ describe_results' = DictSet(describe_results, f.node_name, f.describe_text)
    /\ UNCHANGED <<cmd, cpc, exit_code, printed, nodes, unreachable, report,
                   get_nodes_calls, describe_calls, pending, in_flight, outsideInventory>>

\* Every future has been yielded and the pool is shut down.
Join ==
    /\ cpc = "gather"
    /\ pending = <<>> /\ in_flight = {} /\ completed = {}
    /\ cpc' = "joined"
    /\ UNCHANGED <<cmd, exit_code, printed, inventoryVars, outsideInventory>>

NextFetch ==
    \/ GetNodes
    \/ WorkerStart
    \/ WorkerFinish
    \/ Collect
    \/ Join
    \/ ResourcesReport

SpecFetch == InitFetch /\ [][NextFetch]_vars

-----------------------------------------------------------------------------
(* deploy_grpo_services and deploy_verifiers_services: cw_cli/utils.py.    *)

\* config_data.get(key, default)
GetOr(config_data, key, default) ==
    IF key \in DOMAIN config_data THEN config_data[key] ELSE default

\* update_grpo_yaml_with_resources: the resources of the container are
\* replaced by the block built from gpu, cpu and memory with their defaults.
update_grpo_yaml_with_resources(yaml_path, config_data, pull_latest) ==
    LET tier == Tier(StrV(PyStr(GetOr(config_data, "gpu", IntV(8)))),
                     StrV(PyStr(GetOr(config_data, "cpu", StrV(<<"3", "2">>)))),
                     StrV(PyStr(GetOr(config_data, "memory",
                                      StrV(<<"1", "0", "0", "0", "Gi">>)))))
        resources == DictV([k \in {"limits", "requests"} |-> tier])
        doc == Template(yaml_path)
        update(c) ==
            LET c1 == IF "image" \in DOMAIN config_data
                      THEN [c EXCEPT !.image = config_data["image"]] ELSE c
                c2 == [c1 EXCEPT !.resources = resources]
            IN IF pull_latest THEN [c2 EXCEPT !.env = Append(@, "PULL_LATEST=true")] ELSE c2
    IN [doc EXCEPT !.containers = [i \in 1..Len(doc.containers) |-> update(doc.containers[i])]]

\* The list `services` of (service_name, yaml_file) pairs.
services(j) ==
    LET fw == j.framework
        prefix == IF fw = "axolotl" THEN <<>> ELSE <<"Verifiers">>
    IN <<[service_name |-> prefix \o <<"VLLM Server">>, yaml_file |-> VllmTemplate(fw)],
         [service_name |-> prefix \o <<"Rewards Server">>, yaml_file |-> RewardsTemplate(fw)]>>
       \o (IF j.services_only THEN <<>>
           ELSE <<[service_name |-> prefix \o <<"Training Job">>,
                   yaml_file |-> TrainingTemplate(fw)]>>)

\* if service_name != "Training Job": time.sleep(10), for the i-th service.
services_settle(j, i) ==
    services(j)[i].service_name # (IF j.framework = "axolotl" THEN <<"Training Job">>
                                   ELSE <<"Verifiers", "Training Job">>)

InitServices ==
    /\ job \in {j \in Jobs : j.training_type = "grpo"}
    /\ pc = "configmap"
    /\ step = 0
    /\ service_names = <<>>
    /\ cluster = EmptyDict
    /\ events = <<>>
    /\ result = NoResult
    /\ IdleRes
    /\ IdleMerge
    /\ IdleCli

\* The function returns the bool ok.
ServicesReturns(ok) == result' = DeploymentResult(ok, None, None, None) /\ pc' = "done"

ServicesConfigMap ==
    /\ pc = "configmap"
    /\ LET doc == create_configmap_yaml(job.config_data,
                      get_configmap_name(job.framework, "grpo"))
       IN \E ok \in BOOLEAN :
            /\ events' = events \o <<ConsolePrint("creating_configmap", ""),
                                     KubectlApply(doc.name), KubectlDone(doc.name, ok)>>
            /\ IF ok
               THEN cluster' = Applied(cluster, doc) /\ pc' = "loop" /\ UNCHANGED result
               ELSE ServicesReturns(FALSE) /\ UNCHANGED cluster
    /\ UNCHANGED <<job, step, service_names>>
    /\ UNCHANGED otherVars

\* One turn of the loop up to the kubectl call: the file may be missing and
\* update_grpo_yaml_with_resources may raise.
ServicesStepBegin ==
    /\ pc = "loop" /\ step < Len(services(job))
    /\ LET s == services(job)[step + 1]
           ev == events \o <<ConsolePrint("deploying", s.service_name[Len(s.service_name)])>>
       IN \E outcome \in {"missing", "render_error", "kubectl"} :
            IF outcome = "kubectl"
            THEN /\ events' = ev \o <<KubectlApply(s.yaml_file)>>
                 /\ pc' = "applying"
                 /\ UNCHANGED result
            ELSE /\ events' = ev \o <<ConsolePrint(outcome, s.yaml_file)>>
                 /\ ServicesReturns(FALSE)
    /\ UNCHANGED <<job, step, service_names, cluster>>
    /\ UNCHANGED otherVars

\* run_kubectl_command returns.
ServicesStepEnd ==
    /\ pc = "applying"
    /\ LET s == services(job)[step + 1]
           doc == update_grpo_yaml_with_resources(s.yaml_file, job.config_data,
                                                  job.pull_latest)
       IN \E ok \in BOOLEAN :
            IF ok
            THEN /\ cluster' = Applied(cluster, doc)
                 /\ events' = events \o
                        <<KubectlDone(s.yaml_file, TRUE),
                          ConsolePrint("deployed", s.service_name[Len(s.service_name)])>>
                 /\ IF services_settle(job, step + 1)
                    THEN pc' = "sleep" /\ step' = step
                    ELSE pc' = "loop" /\ step' = step + 1
                 /\ UNCHANGED result
            ELSE /\ events' = events \o <<KubectlDone(s.yaml_file, FALSE),
                                          ConsolePrint("failed_to_deploy", "")>>
                 /\ ServicesReturns(FALSE)
                 /\ UNCHANGED <<cluster, step>>
    /\ UNCHANGED <<job, service_names>>
    /\ UNCHANGED otherVars

\* time.sleep(10)
ServicesSettle ==
    /\ pc = "sleep"
    /\ events' = events \o <<ConsolePrint("waiting", ""), Event("sleep", "", "", SettleDelay)>>
    /\ step' = step + 1
    /\ pc' = "loop"
    /\ UNCHANGED <<job, service_names, cluster, result>>
    /\ UNCHANGED otherVars

\* The loop is over: return True.
ServicesFinish ==
    /\ pc = "loop" /\ step = Len(services(job))
    /\ ServicesReturns(TRUE)
    /\ UNCHANGED <<job, step, service_names, cluster, events>>
    /\ UNCHANGED otherVars

NextServices ==
    \/ ServicesConfigMap
    \/ ServicesStepBegin
    \/ ServicesStepEnd
    \/ ServicesSettle
    \/ ServicesFinish

SpecServices == InitServices /\ [][NextServices]_vars

-----------------------------------------------------------------------------
(* FrameworkRegistry: cw_cli/core/registry.py.                             *)

\* The names a caller registers or looks up: a built-in name and three
\* names that differ by case only.
RegistryKeys == {"axolotl", "test", "Test", "TEST"}

\* The framework objects a caller registers.
RegisteredFrameworks == {"AxolotlFramework", "mock_framework1", "mock_framework2"}

Registration(name, framework) == [name |-> name, framework |-> framework]

\* Mutant: an existing entry is kept.
register_keep_first(table, name, framework) ==
    IF name \in DOMAIN table THEN table ELSE DictSet(table, name, framework)

\* Mutant: the table is replaced by the one entry.
register_replace(table, name, framework) == DictSet(EmptyDict, name, framework)

\* self._frameworks[name] = framework
register(table, name, framework) == DictSet(table, name, framework)

\* self._frameworks.get(name)
get_framework(table, name) ==
    IF name \in DOMAIN table THEN Some(<<table[name]>>) ELSE None

InitRegistry ==
    /\ IdleDeploy
    /\ IdleRes
    /\ IdleMerge
    /\ IdleCommand
    /\ IdleLogs
    /\ IdleStatus
    /\ IdleInventory
    /\ IdleRegistry
    /\ IdleDelete
    /\ IdleProcess

\* registry.register(name, framework)
Register ==
    /\ Len(registrations) < Len(BuiltinRegistrations) + MaxRegisters
    /\ \E name \in RegistryKeys, framework \in RegisteredFrameworks :
          /\ frameworks' = register(frameworks, name, framework)
          /\ registrations' = Append(registrations, Registration(name, framework))
    /\ UNCHANGED <<lookup, listed, outsideRegistry>>

\* registry.get_framework(name)
GetFramework ==
    /\ \E name \in RegistryKeys :
          lookup' = [name |-> name, result |-> get_framework(frameworks, name),
                     after |-> Len(registrations)]
    /\ UNCHANGED <<frameworks, registrations, listed, outsideRegistry>>

NextRegistry ==
    \/ Register
    \/ GetFramework

SpecRegistry == InitRegistry /\ [][NextRegistry]_vars

\* The name the caller of list_frameworks appends to the list it was given.
FakeFramework == "fake-framework"

RemoveAt(seq, i) == SubSeq(seq, 1, i - 1) \o SubSeq(seq, i + 1, Len(seq))

\* The keys of a dict in insertion order: a key keeps the position of its
\* first insertion.
RECURSIVE FirstNames(_)
FirstNames(regs) ==
    IF regs = <<>> THEN <<>>
    ELSE LET front == FirstNames(SubSeq(regs, 1, Len(regs) - 1))
             name == regs[Len(regs)].name
         IN IF \E i \in DOMAIN front : front[i] = name THEN front
            ELSE Append(front, name)

keys(table, regs) == SelectSeq(FirstNames(regs), LAMBDA name : name \in DOMAIN table)

\* Mutant: the registry hands out its own key storage.
list_frameworks_view(table, regs) ==
    [returned |-> TRUE, shares |-> TRUE, items |-> keys(table, regs), mutations |-> 0]

\* list(self._frameworks.keys()): a new list object, which shares nothing
\* with the registry.
list_frameworks(table, regs) ==
    [returned |-> TRUE, shares |-> FALSE, items |-> keys(table, regs), mutations |-> 0]

InitListing == InitRegistry

\* frameworks_list = registry.list_frameworks()
ListFrameworks ==
    /\ listed' = list_frameworks(frameworks, registrations)
    /\ UNCHANGED <<frameworks, registrations, lookup, outsideRegistry>>

\* frameworks_list.append("fake-framework"), by the caller.  A list that
\* shared the registry's storage would change the registry with it.
ListAppend ==
    /\ listed.returned
    /\ listed.mutations < MaxListMutations
    /\ listed' = [listed EXCEPT !.items = Append(@, FakeFramework),
                                !.mutations = @ + 1]
    /\ frameworks' = IF listed.shares
                     THEN register(frameworks, FakeFramework, FakeFramework)
                     ELSE frameworks
    /\ UNCHANGED <<registrations, lookup, outsideRegistry>>

\* frameworks_list.remove(name), by the caller, for a name in the list.
ListRemove ==
    /\ listed.returned
    /\ listed.mutations < MaxListMutations
    /\ \E i \in DOMAIN listed.items :
          /\ \A j \in 1..(i - 1) : listed.items[j] # listed.items[i]
          /\ listed' = [listed EXCEPT !.items = RemoveAt(@, i), !.mutations = @ + 1]
          /\ frameworks' = IF listed.shares
                           THEN [name \in DOMAIN frameworks \ {listed.items[i]} |->
                                    frameworks[name]]
                           ELSE frameworks
    /\ UNCHANGED <<registrations, lookup, outsideRegistry>>

NextListing ==
    \/ Register
    \/ ListFrameworks
    \/ ListAppend
    \/ ListRemove

SpecListing == InitListing /\ [][NextListing]_vars

-----------------------------------------------------------------------------
(* delete_command, _force_delete_resources: cw_cli/commands.py;            *)
(* cleanup_grpo_services: cw_cli/utils.py.                                 *)

\* The characters of the resource names of the model; the part after a
\* prefix the code tests is kept as one element.
Chars(name) ==
    CASE name = "" -> <<>>
      [] name = "cw-axolotl-train-sft" -> <<"c", "w", "-", "axolotl-train-sft">>
      [] name = "cw-axolotl-train-grpo" -> <<"c", "w", "-", "axolotl-train-grpo">>
      [] name = "cw-verifiers-train-grpo" -> <<"c", "w", "-", "verifiers-train-grpo">>
      [] name = "cw-axolotl-train-sft-config" -> <<"c", "w", "-", "axolotl-train-sft-config">>
      [] name = "cw-axolotl-train-grpo-config" -> <<"c", "w", "-", "axolotl-train-grpo-config">>
      [] name = "cw-verifiers-train-grpo-config" ->
            <<"c", "w", "-", "verifiers-train-grpo-config">>
      [] name = "cw-axolotl-config" -> <<"c", "w", "-", "axolotl-config">>
      [] name = "cw-axolotl-train-config" -> <<"c", "w", "-", "axolotl-train-config">>
      [] name = "cw-vllm" -> <<"c", "w", "-", "vllm">>
      [] name = "cw-rewards" -> <<"c", "w", "-", "rewards">>
      [] OTHER -> <<name>>

Resource(kind, name) == [kind |-> kind, name |-> name]

\* What the deployment of a job of framework fw and training type tt leaves
\* in the cluster: the job, its ConfigMap and, for GRPO, the deployments and
\* services of the two servers.
Deployed(fw, tt) ==
    {Resource("job", get_job_name(fw, tt)), Resource("configmap", get_configmap_name(fw, tt))}
    \cup (IF tt = "grpo"
          THEN {Resource(k, n) : k \in {"deployment", "service"}, n \in {"cw-vllm", "cw-rewards"}}
          ELSE {})

\* Resources of the cluster that this tool did not create.
Foreign ==
    {Resource("job", "other-job"), Resource("deployment", "nginx"),
     Resource("service", "kubernetes")}

\* The order in which kubectl get lists the resources.
Listing ==
    <<Resource("job", "cw-axolotl-train-sft"), Resource("job", "cw-axolotl-train-grpo"),
      Resource("job", "cw-verifiers-train-grpo"), Resource("job", "other-job"),
      Resource("deployment", "cw-vllm"), Resource("deployment", "cw-rewards"),
      Resource("deployment", "nginx"),
      Resource("service", "cw-vllm"), Resource("service", "cw-rewards"),
      Resource("service", "kubernetes")>>

DeleteCommands ==
    {[name |-> "delete", job |-> j] :
        j \in {"", "cw-axolotl-train-sft", "cw-axolotl-train-grpo",
               "cw-verifiers-train-grpo", "other-job"}}

\* What the user types at a confirmation prompt.
Responses ==
    {<<"y">>, <<"Y", "E", "S">>, <<" ", "y", "e", "s", " ">>, <<"n">>, <<>>, <<"y", "e", "s", "!">>}

\* str.lower, on the letters of the responses.
Lower(c) ==
    CASE c = "Y" -> "y" [] c = "E" -> "e" [] c = "S" -> "s" [] c = "N" -> "n" [] OTHER -> c

\* str.strip
RECURSIVE Strip(_)
Strip(x) ==
    IF x = <<>> THEN x
    ELSE IF x[1] = " " THEN Strip(Tail(x))
    ELSE IF x[Len(x)] = " " THEN Strip(SubSeq(x, 1, Len(x) - 1))
    ELSE x

\* response = console.input(...).strip().lower(); response in ['y', 'yes']
Confirms(response) ==
    LET stripped == Strip(response)
        lowered == [i \in 1..Len(stripped) |-> Lower(stripped[i])]
    IN lowered \in {<<"y">>, <<"y", "e", "s">>}

\* _is_grpo_job
is_grpo_job(job_name) == job_name = "cw-axolotl-train-grpo"

\* The ConfigMap delete_command tries to delete.
delete_configmap_name(job_name) ==
    IF is_grpo_job(job_name) THEN "cw-axolotl-config" ELSE "cw-axolotl-train-config"

\* The resources of the given kinds that kubectl get lists and pred keeps,
\* in listing order.
Listed(kinds, pred(_)) ==
    SelectSeq(Listing, LAMBDA r : r \in k8s /\ r.kind \in kinds /\ pred(r))

\* Mutant: the prefix of the names is not tested.
force_candidates_unfiltered(listable) == Listed(listable, LAMBDA r : TRUE)

\* cw_resources: the jobs, deployments and services named cw-..., of the
\* kinds whose kubectl get succeeded.
force_candidates(listable) ==
    Listed(listable, LAMBDA r : StartsWith(Chars(r.name), CwPrefix))

\* The deployments and services cleanup_grpo_services deletes.
cleanup_candidates(listable) ==
    Listed(listable \cap {"deployment", "service"},
           LAMBDA r : \/ StartsWith(Chars(r.name), Chars("cw-vllm"))
                      \/ StartsWith(Chars(r.name), Chars("cw-rewards")))

\* kubectl delete of each resource of seq in turn; the ones in refused fail.
DeleteCalls(seq, refused) ==
    [i \in 1..Len(seq) |-> [kind |-> seq[i].kind, name |-> seq[i].name,
                            ok |-> seq[i] \in k8s /\ seq[i] \notin refused]]

Removed(calls) == {Resource(calls[i].kind, calls[i].name) : i \in {j \in DOMAIN calls : calls[j].ok}}

InitDelete ==
    /\ IdleDeploy
    /\ IdleRes
    /\ IdleMerge
    /\ IdleLogs
    /\ IdleStatus
    /\ IdleInventory
    /\ IdleRegistry
    /\ IdleProcess
    /\ cmd \in DeleteCommands
    /\ cpc = "start"
    /\ exit_code = NoExit
    /\ printed = {}
    /\ k8s \in {Foreign} \cup
               {Deployed(j.framework, j.training_type) \cup Foreign : j \in Jobs}
    /\ deletes = <<>>
    /\ answers = <<>>
    /\ cw_resources = <<>>
    /\ choice = NoChoice

\* delete_command up to its confirmation prompt.
DeleteStart ==
    /\ cpc = "start" /\ cmd.name = "delete"
    /\ IF cmd.job = ""
       THEN cpc' = "force_list" /\ UNCHANGED <<exit_code, printed>>
       ELSE IF ~StartsWith(Chars(cmd.job), CwPrefix)
       THEN Exits(1) /\ printed' = printed \cup {"not_cw_job"}
       ELSE cpc' = "confirm" /\ UNCHANGED <<exit_code, printed>>
    /\ UNCHANGED <<cmd, deleteVars, outsideDelete>>

\* The answer at the prompt of delete_command, and kubectl delete job.  A
\* Ctrl+C at console.input is a KeyboardInterrupt, which the function's
\* except clause (CalledProcessError) does not catch.
DeleteConfirm ==
    /\ cpc = "confirm"
    /\ \/ /\ cpc' = "exited"
          /\ exit_code' \in UnhandledInterruptExit
          /\ UNCHANGED <<printed, deleteVars>>
       \/ \E response \in Responses :
            /\ answers' = Append(answers, response)
            /\ IF ~Confirms(response)
               THEN /\ Exits(0)
                    /\ printed' = printed \cup {"deletion_cancelled"}
                    /\ UNCHANGED <<k8s, deletes>>
               ELSE \E refused \in SUBSET {Resource("job", cmd.job)} :
                      LET calls == DeleteCalls(<<Resource("job", cmd.job)>>, refused) IN
                      /\ deletes' = deletes \o calls
                      /\ k8s' = k8s \ Removed(calls)
                      /\ IF calls[1].ok
                         THEN /\ cpc' = IF is_grpo_job(cmd.job) THEN "cleanup" ELSE "configmap"
                              /\ printed' = printed \cup {"job_deleted"}
                              /\ UNCHANGED exit_code
                         ELSE /\ Exits(1)
                              /\ printed' = printed \cup {"failed_to_delete"}
            /\ UNCHANGED <<cw_resources, choice>>
    /\ UNCHANGED <<cmd, outsideDelete>>

\* cleanup_grpo_services: a kubectl get that fails skips its kind, and a
\* delete that fails is reported and passed over.
DeleteCleanup ==
    /\ cpc = "cleanup"
    /\ \E listable \in SUBSET {"deployment", "service"} :
         \E refused \in SUBSET {r \in k8s : r.kind = "service"} :
            LET calls == DeleteCalls(cleanup_candidates(listable), refused) IN
            /\ deletes' = deletes \o calls
            /\ k8s' = k8s \ Removed(calls)
            /\ printed' = printed \cup
                  {IF \A i \in DOMAIN calls : calls[i].ok
                   THEN "services_cleaned_up" ELSE "services_may_remain"}
    /\ cpc' = "configmap"
    /\ UNCHANGED <<cmd, exit_code, answers, cw_resources, choice, outsideDelete>>

\* The attempt to delete the ConfigMap, whose failure is reported as "no
\* associated ConfigMap found"; return 0.
DeleteConfigMap ==
    /\ cpc = "configmap"
    /\ \E refused \in SUBSET {Resource("configmap", delete_configmap_name(cmd.job))} :
          LET calls == DeleteCalls(<<Resource("configmap", delete_configmap_name(cmd.job))>>,
                                   refused)
          IN /\ deletes' = deletes \o calls
             /\ k8s' = k8s \ Removed(calls)
             /\ printed' = printed \cup
                   {IF calls[1].ok THEN "configmap_deleted" ELSE "no_configmap_found"}
    /\ Exits(0)
    /\ UNCHANGED <<cmd, answers, cw_resources, choice, outsideDelete>>

\* _force_delete_resources up to its Prompt.ask.
ForceList ==
    /\ cpc = "force_list"
    /\ \E listable \in SUBSET {"job", "deployment", "service"} :
          /\ cw_resources' = force_candidates(listable)
          /\ IF cw_resources' = <<>>
             THEN Exits(0) /\ printed' = printed \cup {"no_cw_resources"}
             ELSE cpc' = "force_prompt" /\ UNCHANGED <<exit_code, printed>>
    /\ UNCHANGED <<cmd, k8s, deletes, answers, choice, outsideDelete>>

\* Prompt.ask: a number, "all", "q", or Ctrl+C, which is caught here.
ForcePrompt ==
    /\ cpc = "force_prompt"
    /\ \/ Exits(0) /\ printed' = printed \cup {"cancelled"} /\ UNCHANGED choice
       \/ Exits(0) /\ UNCHANGED <<printed, choice>>
       \/ /\ \E c \in {[all |-> TRUE, index |-> 0]}
                      \cup {[all |-> FALSE, index |-> i] : i \in DOMAIN cw_resources} :
                choice' = c
          /\ cpc' = "force_confirm"
          /\ UNCHANGED <<exit_code, printed>>
    /\ UNCHANGED <<cmd, k8s, deletes, answers, cw_resources, outsideDelete>>

\* The confirmation of _force_delete_resources and its deletes.  Ctrl+C at
\* this console.input is caught nowhere.
ForceConfirm ==
    /\ cpc = "force_confirm"
    /\ \/ /\ cpc' = "exited"
          /\ exit_code' \in UnhandledInterruptExit
          /\ UNCHANGED <<printed, k8s, deletes, answers>>
       \/ \E response \in Responses :
            /\ answers' = Append(answers, response)
            /\ IF ~Confirms(response)
               THEN /\ Exits(0)
                    /\ printed' = printed \cup {"deletion_cancelled"}
                    /\ UNCHANGED <<k8s, deletes>>
               ELSE LET targets == IF choice.all THEN cw_resources
                                   ELSE <<cw_resources[choice.index]>>
                    IN \E refused \in SUBSET {r \in k8s : r.kind = "job"} :
                         LET calls == DeleteCalls(targets, refused) IN
                         /\ deletes' = deletes \o calls
                         /\ k8s' = k8s \ Removed(calls)
                         /\ printed' = printed \cup
                               {IF \A i \in DOMAIN calls : calls[i].ok
                                THEN "deleted" ELSE "failed_to_delete"}
                         /\ Exits(IF ~choice.all /\ ~calls[1].ok THEN 1 ELSE 0)
    /\ UNCHANGED <<cmd, cw_resources, choice, outsideDelete>>

NextDelete ==
    \/ DeleteStart
    \/ DeleteConfirm
    \/ DeleteCleanup
    \/ DeleteConfigMap
    \/ ForceList
    \/ ForcePrompt
    \/ ForceConfirm

SpecDelete == InitDelete /\ [][NextDelete]_vars

-----------------------------------------------------------------------------
(* grpo_restart_command: cw_cli/commands.py; restart_grpo_service_command  *)
(* and RestartCommandHandler.handle_grpo_restart: cw_cli/core/commands.py. *)

\* str.lower, on the letters of the service names.
LowerName(x) ==
    [i \in 1..Len(x) |->
        CASE x[i] = "V" -> "v" [] x[i] = "L" -> "l" [] x[i] = "M" -> "m" [] OTHER -> x[i]]

RestartCommands ==
    {[name |-> "restart", service |-> s] :
        s \in {<<"v", "l", "l", "m">>, <<"V", "L", "L", "M">>, <<"rewards">>,
               <<"t", "r", "a", "i", "n">>, <<>>}}

\* service_name.lower() in ['vllm', 'rewards']
valid_service(service) ==
    LowerName(service) \in {<<"v", "l", "l", "m">>, <<"rewards">>}

\* The functions whose body is inside try ... except Exception.
Catching == {"grpo_restart_command", "handle_grpo_restart"}

Top == stack[Len(stack)]

\* A call of callee: a new frame, or RecursionError when the stack is full.
Calls(callee) ==
    IF Len(stack) < RecursionLimit
    THEN stack' = Append(stack, callee) /\ UNCHANGED cpc
    ELSE cpc' = "raising" /\ UNCHANGED stack

InitRestart ==
    /\ IdleDeploy
    /\ IdleRes
    /\ IdleMerge
    /\ IdleLogs
    /\ IdleStatus
    /\ IdleInventory
    /\ IdleRegistry
    /\ IdleDelete
    /\ argv = <<>>
    /\ cmd \in RestartCommands
    /\ cpc = "start"
    /\ exit_code = NoExit
    /\ printed = {}
    /\ stack = <<>>

\* main() calls grpo_restart_command(service).
RestartDispatch ==
    /\ cpc = "start" /\ cmd.name = "restart"
    /\ stack' = <<"grpo_restart_command">>
    /\ cpc' = "running"
    /\ UNCHANGED <<cmd, exit_code, printed, argv, outsideProcess>>

\* grpo_restart_command: return restart_grpo_service_command("axolotl", service)
GrpoRestartCommand ==
    /\ cpc = "running" /\ Top = "grpo_restart_command"
    /\ Calls("restart_grpo_service_command")
    /\ UNCHANGED <<cmd, exit_code, printed, argv, outsideProcess>>

\* restart_grpo_service_command: return handler.handle_grpo_restart(...)
RestartGrpoServiceCommand ==
    /\ cpc = "running" /\ Top = "restart_grpo_service_command"
    /\ Calls("handle_grpo_restart")
    /\ UNCHANGED <<cmd, exit_code, printed, argv, outsideProcess>>

\* handle_grpo_restart: return 1 for a service or a framework it does not
\* know, else return grpo_restart_command(service_name).
HandleGrpoRestart ==
    /\ cpc = "running" /\ Top = "handle_grpo_restart"
    /\ IF ~valid_service(cmd.service)
       THEN /\ printed' = printed \cup {"service_must_be_vllm_or_rewards"}
            /\ cpc' = "returning"
            /\ UNCHANGED stack
       ELSE IF ~get_framework(frameworks, "axolotl").some
       THEN /\ printed' = printed \cup {"unsupported_framework"}
            /\ cpc' = "returning"
            /\ UNCHANGED stack
       ELSE Calls("grpo_restart_command") /\ UNCHANGED printed
    /\ UNCHANGED <<cmd, exit_code, argv, outsideProcess>>

\* The RecursionError leaves the top frame.  A frame of Catching catches it,
\* prints and returns 1, unless the stack is still so full that the print in
\* the except clause raises RecursionError again.
Unwind ==
    /\ cpc = "raising" /\ stack # <<>>
    /\ \/ /\ Top \in Catching
          /\ printed' = printed \cup {"error_restarting_service"}
          /\ cpc' = "returning"
          /\ UNCHANGED stack
       \/ /\ Top \notin Catching \/ Len(stack) > RecursionLimit - HandlerDepth
          /\ Len(stack) > 1
          /\ stack' = SubSeq(stack, 1, Len(stack) - 1)
          /\ UNCHANGED <<cpc, printed>>
    /\ UNCHANGED <<cmd, exit_code, argv, outsideProcess>>

\* The top frame returns 1 to its caller, which returns it in turn; the
\* outermost return is the status of the command.
Return ==
    /\ cpc = "returning"
    /\ stack' = SubSeq(stack, 1, Len(stack) - 1)
    /\ IF Len(stack) = 1 THEN Exits(1) ELSE UNCHANGED <<cpc, exit_code>>
    /\ UNCHANGED <<cmd, printed, argv, outsideProcess>>

NextRestart ==
    \/ RestartDispatch
    \/ GrpoRestartCommand
    \/ RestartGrpoServiceCommand
    \/ HandleGrpoRestart
    \/ Unwind
    \/ Return

SpecRestart == InitRestart /\ [][NextRestart]_vars

-----------------------------------------------------------------------------
(* TrainingCommandHandler._parse_command_overrides: cw_cli/core/commands.py; *)
(* parse_overrides: cw_cli/commands.py.                                    *)

\* An argument "--key", and an argument that does not start with "--".
Flag(key) == [flag |-> TRUE, key |-> key, chars |-> <<>>]
Word(chars) == [flag |-> FALSE, key |-> "", chars |-> chars]

ConfigPath == Word(<<"config.yaml">>)

ArgTokens ==
    {Flag("pull"), Flag("services"), Flag("run_name"),
     Word(<<"8">>), Word(<<"x">>), Word(<<"0", ".", "8">>)}

RECURSIVE ArgLists(_)
ArgLists(n) ==
    IF n = 0 THEN {<<>>}
    ELSE ArgLists(n - 1) \cup {Append(a, t) : a \in ArgLists(n - 1), t \in ArgTokens}

\* The command lines: the modifiers before or after the configuration path.
CommandLines ==
    {before \o <<ConfigPath>> \o after :
        before \in {<<>>, <<Flag("pull")>>}, after \in ArgLists(MaxArgs)}

\* sys.argv[sys.argv.index(str(config_path)) + 1:]
override_args(args) ==
    LET at == {i \in DOMAIN args : args[i] = ConfigPath}
    IN IF at = {} THEN <<>>
       ELSE SubSeq(args, (CHOOSE i \in at : \A j \in at : i <= j) + 1, Len(args))

\* The value parse_overrides stores for the text of an argument.
ParseValue(chars) ==
    IF chars # <<>> /\ AllDigits(chars) THEN IntV(DigitsValue(chars))
    ELSE IF /\ DotPositions(chars) # {}
            /\ SelectSeq(chars, LAMBDA c : c # ".") # <<>>
            /\ AllDigits(SelectSeq(chars, LAMBDA c : c # "."))
            /\ ~FloatRaises(StrV(chars))
    THEN PyFloat(StrV(chars))
    ELSE StrV(chars)

RECURSIVE ParseFrom(_, _, _)
ParseFrom(args, i, overrides) ==
    IF i > Len(args) THEN overrides
    ELSE IF args[i].flag
    THEN (IF i + 1 <= Len(args) /\ ~args[i + 1].flag
          THEN ParseFrom(args, i + 2,
                         DictSet(overrides, args[i].key, ParseValue(args[i + 1].chars)))
          ELSE ParseFrom(args, i + 1, DictSet(overrides, args[i].key, BoolV(TRUE))))
    ELSE ParseFrom(args, i + 1, overrides)

parse_overrides(args) == ParseFrom(args, 1, EmptyDict)

InitArgv ==
    /\ IdleDeploy
    /\ IdleRes
    /\ IdleLogs
    /\ IdleStatus
    /\ IdleInventory
    /\ IdleRegistry
    /\ IdleDelete
    /\ stack = <<>>
    /\ argv \in CommandLines
    /\ cmd = [name |-> "train"]
    /\ cpc = "start"
    /\ exit_code = NoExit
    /\ printed = {}
    /\ mo_config \in MergeConfigs
    /\ mo_overrides = EmptyDict
    /\ mo_out = NoDict
    /\ mo_twice = NoDict

\* overrides = self._parse_command_overrides(config_file_path)
ParseCommandOverrides ==
    /\ cpc = "start" /\ cmd.name = "train"
    /\ mo_overrides' = parse_overrides(override_args(argv))
    /\ printed' = printed \cup (IF mo_overrides' = EmptyDict THEN {} ELSE {"override"})
    /\ cpc' = "parsed"
    /\ UNCHANGED <<cmd, exit_code, argv, stack, mo_config, mo_out, mo_twice>>
    /\ UNCHANGED <<deployVars, resVars, logsVars, statusVars, inventoryVars, registryVars,
                   deleteVars>>

\* if overrides: config_data = merge_overrides(config_data, overrides); the
\* document is then the config_data of the TrainingJob.
ApplyOverrides ==
    /\ cpc = "parsed"
    /\ mo_out' = DictV(IF mo_overrides # EmptyDict
                       THEN merge_overrides(mo_config, mo_overrides)
                       ELSE mo_config)
    /\ cpc' = "job"
    /\ UNCHANGED <<cmd, exit_code, printed, argv, stack, mo_config, mo_overrides, mo_twice>>
    /\ UNCHANGED <<deployVars, resVars, logsVars, statusVars, inventoryVars, registryVars,
                   deleteVars>>

NextArgv ==
    \/ ParseCommandOverrides
    \/ ApplyOverrides

SpecArgv == InitArgv /\ [][NextArgv]_vars

-----------------------------------------------------------------------------
(* Properties.                                                             *)

ConfigMapName == get_configmap_name(job.framework, job.training_type)

\* The positions of the history at which kubectl is invoked on a manifest.
ManifestApplies ==
    {i \in 1..Len(events) : events[i].ev = "kubectl" /\ events[i].what # ConfigMapName}

\* The manifests whose apply was attempted, in order.
AttemptedManifests ==
    LET applies == SelectSeq(events, LAMBDA e : e.ev = "kubectl" /\ e.what # ConfigMapName)
    IN [i \in 1..Len(applies) |-> applies[i].what]

Returned == pc = "done"

\* deploy() returned the failure of a GRPO manifest step.
GrpoStepFailure ==
    /\ IsGrpo /\ Returned /\ ~result.success
    /\ result.error_message.some
    /\ result.error_message.v[1] = "Failed to deploy"

\* The labels of the first n steps.
Labels(n) == SubSeq(service_labels, 1, n)

\* C1: when step k of the GRPO plan is the first to fail, the deployment
\* result lists exactly the steps 1..k-1 as deployed services, names step k
\* in its error message, and no apply of a later step was attempted.
\* (step is k-1 when the failure is returned.)
C1_FailureReportsDeployedPrefix ==
    GrpoStepFailure =>
        /\ result.services = Some(Labels(step))
        /\ result.error_message = Some(<<"Failed to deploy", service_labels[step + 1]>>)
        /\ Len(AttemptedManifests) <= step + 1

\* C2: with services_only set, kubectl is invoked only on the config
\* artifact, the inference server and the reward server; the training-job
\* manifest is neither attempted nor present in the cluster.
C2_ServicesOnlyNeverAppliesTraining ==
    (IsGrpo /\ job.services_only) =>
        /\ \A i \in 1..Len(events) :
              events[i].ev = "kubectl" =>
                  events[i].what \in {ConfigMapName, VllmTemplate(job.framework),
                                      RewardsTemplate(job.framework)}
        /\ \A fw \in Frameworks : TrainingTemplate(fw) \notin DOMAIN cluster

C2_Witness ==
    /\ IsGrpo /\ job.services_only /\ Returned /\ result.success
    /\ job.framework = "verifiers"
    /\ "rl" \notin DOMAIN job.config_data
    /\ {VllmTemplate(job.framework), RewardsTemplate(job.framework)} \subseteq DOMAIN cluster

\* The declaration order of the multi-service manifests.
DeclaredOrder(fw) ==
    IF fw = "axolotl"
    THEN <<"axolotl/grpo/vllm-deployment.yaml", "axolotl/grpo/rewards-deployment.yaml",
           "axolotl/grpo/training-job.yaml">>
    ELSE <<"verifiers/vllm-deployment.yaml", "verifiers/rewards-deployment.yaml",
           "verifiers/training-job.yaml">>

\* C3: the manifests of a multi-service deploy are attempted in declaration
\* order (inference server, reward server, training job), and whenever the
\* apply of a step begins, the apply of the step before it has returned
\* successfully.
C3_OrderedSequentialApply ==
    IsGrpo =>
        /\ Len(AttemptedManifests) <= 3
        /\ AttemptedManifests = SubSeq(DeclaredOrder(job.framework), 1, Len(AttemptedManifests))
        /\ \A p \in ManifestApplies :
              \A n \in 2..3 :
                  events[p].what = DeclaredOrder(job.framework)[n] =>
                      \E q \in 1..(p - 1) :
                          events[q] = KubectlDone(DeclaredOrder(job.framework)[n - 1], TRUE)
        /\ (pc = "applying") <=> (events # <<>> /\ events[Len(events)].ev = "kubectl")

C3_Witness ==
    /\ IsGrpo /\ Returned /\ result.success /\ ~job.services_only
    /\ Len(AttemptedManifests) = 3

\* deploy() returned the failure of a manifest apply (SFT job or GRPO step).
ManifestFailure ==
    /\ Returned /\ ~result.success
    /\ result.error_message.some
    /\ result.error_message.v[1] \in {"Failed to deploy", "Failed to create Job"}

\* The positions of the history at which a manifest was found missing, failed
\* to render or was refused by kubectl.
FailurePoints ==
    {i \in 1..Len(events) :
        \/ events[i].ev = "kubectl_done" /\ events[i].tag = "failed"
        \/ events[i].ev = "print" /\ events[i].tag \in {"missing", "render_error"}}

LacksDiscriminator(config_data) ==
    ~("rl" \in DOMAIN config_data /\ config_data["rl"] = StrV(<<"grpo">>))

NoMutation ==
    /\ cluster = EmptyDict
    /\ \A i \in 1..Len(events) : events[i].ev # "kubectl"

ValidationFailed ==
    /\ ~result.success
    /\ result.error_message = Some(<<"Configuration validation failed">>)

\* C5 as stated: a GRPO deploy with the training job included of a
\* configuration lacking rl = 'grpo' fails validation with no config artifact
\* created and no manifest applied, whatever the framework.
C5_Original ==
    (IsGrpo /\ ~job.services_only /\ LacksDiscriminator(job.config_data)) =>
        /\ NoMutation
        /\ Returned => ValidationFailed

\* C5 as amended: with the Axolotl framework, a GRPO deploy with the training
\* job included of a configuration lacking rl = 'grpo' fails validation with
\* no config artifact created and no manifest applied.
C5_AxolotlValidationBeforeMutation ==
    (IsGrpo /\ ~job.services_only /\ job.framework = "axolotl"
        /\ LacksDiscriminator(job.config_data)) =>
        /\ NoMutation
        /\ Returned => ValidationFailed
        /\ pc \in {"validate", "done"}

C5_Witness ==
    /\ IsGrpo /\ ~job.services_only /\ job.framework = "axolotl"
    /\ LacksDiscriminator(job.config_data)
    /\ "rl" \in DOMAIN job.config_data
    /\ Returned /\ ValidationFailed

PlacementKeys == {"image", "gpu", "cpu", "memory", "resources"}

\* out holds no cluster-placement key and every other key of in, unchanged.
CleanCopy(out, in) ==
    /\ DOMAIN out \cap PlacementKeys = {}
    /\ \A k \in (DOMAIN in) \ PlacementKeys : k \in DOMAIN out /\ out[k] = in[k]

\* C6: the document read back from the text embedded in the config artifact
\* holds none of image, gpu, cpu, memory, resources and every other key of
\* the job's configuration with its original value; so do the results of
\* prepare_config and of prepare_for_deployment.
C6_ArtifactHasNoPlacementKeys ==
    /\ ConfigMapName \in DOMAIN cluster =>
          CleanCopy(YamlLoad(cluster[ConfigMapName].data), job.config_data)
    /\ CleanCopy(prepare_config(job.framework, job.config_data), job.config_data)
    /\ CleanCopy(prepare_for_deployment(job.config_data), job.config_data)

C6_Witness ==
    /\ ConfigMapName \in DOMAIN cluster
    /\ PlacementKeys \subseteq DOMAIN job.config_data
    /\ {"rl", "learning_rate", "run_name"} \subseteq DOMAIN job.config_data
    /\ job.config_data["run_name"] = StrV(<<"8">>)
    /\ YamlLoad(cluster[ConfigMapName].data)["run_name"] = StrV(<<"8">>)

\* The resource block the configuration asks for.
RequestedResources(config_data) ==
    IF "resources" \in DOMAIN config_data THEN config_data["resources"]
    ELSE SynthesizedResources(config_data)

AsksForResources(config_data) ==
    DOMAIN config_data \cap {"resources", "gpu", "cpu", "memory"} # {}

\* C7: every manifest applied for a configuration that gives resources, gpu,
\* cpu or memory carries, in each container, the explicit resources block
\* unchanged, or else limits and requests both built from the given fields.
C7_ManifestCarriesConfigResources ==
    AsksForResources(job.config_data) =>
        \A name \in (DOMAIN cluster) \ {ConfigMapName} :
            \A i \in 1..Len(cluster[name].containers) :
                cluster[name].containers[i].resources = RequestedResources(job.config_data)

\* C8: when the resources the configuration asks for fail validate_resources,
\* no manifest is handed to kubectl.
C8_InvalidResourcesNotApplied ==
    (AsksForResources(job.config_data)
        /\ ~validate_resources(RequestedResources(job.config_data))) =>
        ManifestApplies = {}

\* The value is an integer count: an int, or a str that reads as one.
IsIntegerCount(v) ==
    \/ v.t = "int"
    \/ v.t = "str" /\ LET body == IF v.s # <<>> /\ v.s[1] \in {"-", "+"} THEN Tail(v.s) ELSE v.s
                      IN body # <<>> /\ \A i \in 1..Len(body) : body[i] \in DigitSet

BothTiersCarryIntegerCounts(r) ==
    /\ r.t = "dict"
    /\ {"limits", "requests"} \subseteq DOMAIN r.d
    /\ \A tier \in {"limits", "requests"} :
          /\ GpuKey \in DOMAIN r.d[tier].d
          /\ IsIntegerCount(r.d[tier].d[GpuKey])

CountOf(v) == IF v.t = "int" THEN v.n ELSE IntLiteralValue(v.s)

\* C9: a resource block whose limits and requests both carry an integer
\* accelerator count is accepted by validate_resources when the two counts
\* are equal and rejected when they differ.
C9_ValidateResourcesComparesCounts ==
    (res_out # "none" /\ BothTiersCarryIntegerCounts(res_in)) =>
        (res_out = "True" <=>
            CountOf(res_in.d["limits"].d[GpuKey]) = CountOf(res_in.d["requests"].d[GpuKey]))

\* The text reads as an integer: an optional sign and digits.
LooksInteger(x) ==
    LET body == IF x # <<>> /\ x[1] \in {"-", "+"} THEN Tail(x) ELSE x
    IN body # <<>> /\ \A i \in 1..Len(body) : body[i] \in DigitSet

\* The text reads as a decimal number: an optional sign, digits, at most one
\* point.
LooksDecimal(x) ==
    LET body == IF x # <<>> /\ x[1] \in {"-", "+"} THEN Tail(x) ELSE x
    IN /\ \E i \in 1..Len(body) : body[i] \in DigitSet
       /\ \A i \in 1..Len(body) : body[i] \in DigitSet \cup {"."}
       /\ \A i, j \in 1..Len(body) : (body[i] = "." /\ body[j] = ".") => i = j

\* The text holds a symbol no number is written with.
NonNumeric(x) == \E i \in 1..Len(x) : x[i] \notin DigitSet \cup {".", "-", "+"}

MergeCalled == mo_out # NoDict

MergedTwice == mo_twice # NoDict

C12_TerminalShowsFinalOnceAndStops ==
    terminal_poll > 0 =>
        /\ log_calls = [follow |-> 0, final |-> 1]
        /\ polls = terminal_poll
        /\ cpc \in {"final", "exited"}

FollowerRan == polls > 0

Interrupted == "stopped" \in printed

\* C13: the follower polls once per 5 units of wait; when it has ended
\* without interrupt and without any poll seeing Running, Succeeded or
\* Failed, it has waited 300 units over 60 polls, printed the timeout
\* message and issued no kubectl logs; after the timeout message nothing
\* more runs.
C13_PollsToCeilingThenTimeout ==
    /\ cpc = "poll" => (wait_time = PollInterval * polls /\ wait_time < max_wait)
    /\ cpc = "sleep" => (wait_time + PollInterval = PollInterval * polls
                            /\ wait_time < max_wait)
    /\ (cpc = "exited" /\ FollowerRan /\ observed = {} /\ ~Interrupted) =>
          /\ "timeout" \in printed
          /\ wait_time = max_wait
          /\ polls * PollInterval = max_wait
          /\ log_calls = NoLogCalls
    /\ "timeout" \in printed => (cpc = "exited" /\ wait_time = max_wait)

\* The ceiling was reached over polls that raised, found no pod and found a
\* pending pod.
C13_Witness ==
    /\ cpc = "exited"
    /\ "timeout" \in printed
    /\ {"waiting_error", "pod_status"} \subseteq printed
    /\ observed = {}
    /\ log_calls = NoLogCalls
    /\ polls * PollInterval = max_wait

InWatchLoop == cmd.name = "status" /\ cmd.watch /\ cmd.output = "table" /\ queries > 0

\* C14: in watch mode with table output the loop refreshes every 2 units
\* and ends only by the user's interrupt, and an interrupt ends the command
\* with status 0.
C14_WatchRunsUntilInterruptExitsZero ==
    InWatchLoop =>
        /\ cpc = "watch_sleep" => watched = RefreshInterval * (renders - 1)
        /\ cpc = "exited" => interrupted
        /\ interrupted => (cpc = "exited" /\ exit_code = 0)

MachineReadable == cmd.name = "status" /\ cmd.output \in {"yaml", "json"}

\* C15: with yaml or json output the refresh loop is never entered, whatever
\* the watch flag: no query of the loop, no layout; a command that found the
\* job has printed the job document and the pod document once, in the
\* requested format, and returned 0.
C15_MachineReadableNeverLoops ==
    MachineReadable =>
        /\ cpc \in {"start", "query", "exited"}
        /\ queries = 0 /\ renders = 0
        /\ {"watching", "layout"} \cap printed = {}
        /\ (cpc = "exited" /\ exit_code = 0) =>
              emitted = <<[doc |-> "job_data", format |-> cmd.output],
                          [doc |-> "pod_data", format |-> cmd.output]>>
        /\ exit_code # 0 => emitted = <<>>

\* json output was asked for together with --watch, and the command returned
\* after printing the two documents.
C15_Witness ==
    /\ cmd.name = "status" /\ cmd.watch /\ cmd.output = "json"
    /\ cpc = "exited" /\ exit_code = 0
    /\ Len(emitted) = 2

\* C16: a user interrupt during a blocking wait (the settle delay of a
\* multi-service deployment, the sleep of the log follower) or during a log
\* follow ends the command with exit code 0.
C16_InterruptIsBenignExitZero ==
    /\ pc = "interrupted" => exit_code = 0
    /\ "stopped" \in printed => exit_code = 0

\* The messages that report a failure to the user.
FailureMessages ==
    {"not_cw_job", "failed_logs", "timeout", "not_found", "deployment_failed"}

ReportedFailure == printed \cap FailureMessages # {}

\* C17: a command function that has reported a failure to the user returns
\* 1; it returns 0 only without such a report.
C17_ReportedFailureReturnsOne ==
    cpc = "exited" => (ReportedFailure => exit_code = 1)

Reported == cmd.name = "resources" /\ cpc = "exited" /\ report # NoReport

\* Capacity minus allocated of a node, as the cluster has it.
TrulyFree(node) ==
    IF node.gpu \in {<<>>, <<"0">>} THEN 0 ELSE IntLiteralValue(node.gpu) - node.allocated

RECURSIVE SumOver(_, _)
SumOver(f, n) == IF n = 0 THEN 0 ELSE SumOver(f, n - 1) + f[n]

TierByRule(unavailable, free, has_capacity) ==
    IF unavailable THEN "unavailable"
    ELSE IF free >= 8 THEN "full_node"
    ELSE IF free > 0 THEN "partial"
    ELSE IF has_capacity THEN "occupied"
    ELSE "cpu_only"

\* C18 as stated: a node is unavailable when it is not Ready, else tiered by
\* its capacity minus allocated; the total of free accelerators is the sum
\* over all nodes of capacity minus allocated.
C18_Original ==
    Reported =>
        /\ \A i \in 1..Len(nodes) :
              report.rows[i] = TierByRule(~nodes[i].ready, TrulyFree(nodes[i]),
                                          nodes[i].gpu \notin {<<>>, <<"0">>})
        /\ report.total_gpus_free = SumOver([i \in 1..Len(nodes) |-> TrulyFree(nodes[i])],
                                            Len(nodes))

\* The free accelerators the report knows of: capacity minus allocated, 0
\* for a node whose describe call failed.
KnownFree(node) ==
    IF node.name \in DOMAIN describe_results /\ describe_results[node.name].text
    THEN TrulyFree(node) ELSE 0

Schedulable(node) == node.ready /\ ~node.unschedulable

\* C18: a node is unavailable when it is not Ready or is unschedulable, else
\* full-node-available iff its known free accelerators are >= 8, else
\* partially-available iff they are > 0, else fully-occupied iff its capacity
\* is non-zero, else CPU-only; the total of free accelerators is the sum of
\* the known free accelerators over the Ready, schedulable nodes.
C18_TiersAndTotalOverSchedulableNodes ==
    Reported =>
        /\ \A i \in 1..Len(nodes) :
              report.rows[i] = TierByRule(~Schedulable(nodes[i]), KnownFree(nodes[i]),
                                          nodes[i].gpu \notin {<<>>, <<"0">>})
        /\ report.total_gpus_free =
              SumOver([i \in 1..Len(nodes) |->
                          IF Schedulable(nodes[i]) THEN KnownFree(nodes[i]) ELSE 0],
                      Len(nodes))

\* Node A has 8 of 8 free, node B 2 of 8, node C no capacity: full, partial
\* and CPU-only, 10 free in total.
C18_Witness ==
    /\ Reported
    /\ nodes = <<Node("A", TRUE, FALSE, <<"8">>, 0), Node("B", TRUE, FALSE, <<"8">>, 6),
                 Node("C", TRUE, FALSE, <<"0">>, 0)>>
    /\ report.rows = <<"full_node", "partial", "cpu_only">>
    /\ report.total_gpus_free = 10
    /\ report.total_nodes_available = 1

AcceleratorNodes == {nodes[i].name : i \in {j \in 1..Len(nodes) : nodes[j].gpu \notin {<<>>, <<"0">>}}}

OtherNodes == {nodes[i].name : i \in 1..Len(nodes)} \ AcceleratorNodes

Joined == cmd.name = "resources" /\ cpc \in {"joined", "exited"} /\ exit_code # 1

\* C19: the node list is fetched once; a node with accelerators gets at most
\* one describe call, exactly one by the join, and other nodes get none; at
\* most 10, and at most as many as there are nodes with accelerators,
\* describe calls are in flight; after the join the results hold one entry
\* for each node with accelerators, under its name, with what the describe
\* of that node returned.
C19_BoundedFanOutOneResultPerNode ==
    (cmd.name = "resources" /\ describe_calls # EmptyDict) =>
        /\ get_nodes_calls <= 1
        /\ cpc # "start" => get_nodes_calls = 1
        /\ \A n \in OtherNodes : describe_calls[n] = 0
        /\ \A n \in AcceleratorNodes : describe_calls[n] <= 1
        /\ Cardinality(in_flight) <= 10
        /\ Cardinality(in_flight) <= Cardinality(AcceleratorNodes)
        /\ Joined =>
              /\ \A n \in AcceleratorNodes : describe_calls[n] = 1
              /\ DOMAIN describe_results = AcceleratorNodes
              /\ \A i \in 1..Len(nodes) :
                    nodes[i].name \in AcceleratorNodes =>
                        describe_results[nodes[i].name] =
                            IF nodes[i].name \in unreachable
                            THEN [text |-> FALSE, allocated |-> 0]
                            ELSE [text |-> TRUE, allocated |-> nodes[i].allocated]

\* The pool is saturated: 10 describe calls are in flight, the first node's
\* among them, while the second node's result is already stored and every
\* task has been started.
C19_Witness ==
    /\ cmd.name = "resources" /\ cpc = "gather"
    /\ Cardinality(in_flight) = 10
    /\ Cardinality(AcceleratorNodes) > 10
    /\ <<"n", "1">> \in in_flight
    /\ <<"n", "2">> \in DOMAIN describe_results
    /\ pending = <<>>

\* The register calls made for a name, by position.
RegistrationsOf(name) == {i \in 1..Len(registrations) : registrations[i].name = name}

LastRegistered(name) ==
    LET calls == RegistrationsOf(name)
    IN registrations[CHOOSE i \in calls : \A j \in calls : j <= i].framework

\* C20: get_framework of a name returns the framework of the most recent
\* register call for exactly that name, also when the name was registered
\* before, and None for a name never registered; names that differ by case
\* are different names.
C20_LookupReturnsLastRegistered ==
    /\ \A name \in {"axolotl", "verifiers", "test", "Test", "TEST"} :
          get_framework(frameworks, name) =
              IF RegistrationsOf(name) = {} THEN [some |-> FALSE, v |-> <<>>]
              ELSE [some |-> TRUE, v |-> <<LastRegistered(name)>>]
    /\ (lookup.name # "" /\ lookup.after = Len(registrations)) =>
          lookup.result = IF RegistrationsOf(lookup.name) = {}
                          THEN [some |-> FALSE, v |-> <<>>]
                          ELSE [some |-> TRUE, v |-> <<LastRegistered(lookup.name)>>]

\* "test" was registered twice and "Test" once; a lookup of "test" returned
\* the second framework, and "TEST" is not registered.
C20_Witness ==
    /\ Len(registrations) = 5
    /\ registrations[3] = [name |-> "test", framework |-> "mock_framework1"]
    /\ registrations[4] = [name |-> "Test", framework |-> "mock_framework1"]
    /\ registrations[5] = [name |-> "test", framework |-> "mock_framework2"]
    /\ lookup = [name |-> "test", result |-> [some |-> TRUE, v |-> <<"mock_framework2">>],
                 after |-> 5]
    /\ "TEST" \notin DOMAIN frameworks

ListMutation == ListAppend \/ ListRemove

\* C21: a mutation of the list that list_frameworks returned, by append or by
\* remove, leaves the registered keys, the result of a later list_frameworks
\* call and the result of every get_framework call as they were.
C21_ListingIsDefensiveCopy ==
    [][ListMutation =>
          /\ DOMAIN frameworks' = DOMAIN frameworks
          /\ list_frameworks(frameworks', registrations').items
                = list_frameworks(frameworks, registrations).items
          /\ \A name \in DOMAIN frameworks \cup {FakeFramework, "TEST"} :
                get_framework(frameworks', name) = get_framework(frameworks, name)]_vars

\* The caller removed a registered name from a list of three names, and the
\* registry still holds the three.
C21_Witness ==
    /\ listed.returned
    /\ listed.mutations = 1
    /\ listed.items = <<"axolotl", "test">>
    /\ DOMAIN frameworks = {"axolotl", "verifiers", "test"}

\* C22: in every state of a registry the names "axolotl" and "verifiers" are
\* registered, and no step removes a registered name.
C22_BuiltinsStayAndKeysNeverShrink ==
    /\ []({"axolotl", "verifiers"} \subseteq DOMAIN frameworks)
    /\ [][DOMAIN frameworks \subseteq DOMAIN frameworks']_vars

\* A caller registered its own framework under a built-in name and two further
\* names.
C22_Witness ==
    /\ frameworks["axolotl"] = "mock_framework1"
    /\ frameworks["verifiers"] = "VerifiersFramework"
    /\ DOMAIN frameworks = {"axolotl", "verifiers", "test", "Test"}

\* The positions of the history at which kubectl is invoked.
KubectlCalls == {i \in 1..Len(events) : events[i].ev = "kubectl"}

ConfigMapApplies == {i \in KubectlCalls : events[i].what = ConfigMapName}

ConfigMapRefused ==
    \E i \in 1..Len(events) : events[i] = KubectlDone(ConfigMapName, FALSE)

\* C23: in the SFT and in the GRPO deploy the apply of the ConfigMap is the
\* first kubectl call and is made at most once; nothing is in the cluster
\* before the ConfigMap; and when that apply fails, deploy has returned a
\* failure and no manifest was applied.
C23_ConfigMapFirstAndOnce ==
    /\ Cardinality(ConfigMapApplies) <= 1
    /\ \A i \in KubectlCalls :
          /\ events[i].tag = "apply"
          /\ \E c \in ConfigMapApplies : c <= i
    /\ cluster # EmptyDict => ConfigMapName \in DOMAIN cluster
    /\ ConfigMapRefused =>
          /\ pc = "done"
          /\ ~result.success
          /\ result.error_message = Some(<<"Failed to create ConfigMap">>)
          /\ ManifestApplies = {}
          /\ cluster = EmptyDict

\* An SFT deploy whose ConfigMap apply was refused.
C23_Witness ==
    /\ IsSft /\ pc = "done"
    /\ ConfigMapRefused
    /\ Cardinality(KubectlCalls) = 1

\* The positions of the history at which a manifest apply returned success.
SuccessfulApplies ==
    {i \in 1..Len(events) :
        events[i].ev = "kubectl_done" /\ events[i].tag = "ok" /\ events[i].what # ConfigMapName}

\* The step of the plan a successful apply completed.
StepOf(i) == Cardinality({a \in SuccessfulApplies : a <= i})

Settles == {i \in 1..Len(events) : events[i].ev = "sleep"}

\* The last kubectl return before position i of the history.
LastReturnBefore(i) ==
    LET before == {r \in 1..(i - 1) : events[r].ev = "kubectl_done"}
    IN IF before = {} THEN 0 ELSE CHOOSE r \in before : \A q \in before : q <= r

\* C24: in a multi-service deploy every settle delay is of 10 time units and
\* follows a successful manifest apply that is not the last step of the plan;
\* no delay follows the last planned step or a failed step; and the deploy
\* does not go on past a successful non-final step without the delay.
C24_SettleAfterEachStepButTheLast ==
    IsGrpo =>
        /\ \A s \in Settles :
              /\ events[s].n = SettleDelay
              /\ LastReturnBefore(s) \in SuccessfulApplies
              /\ StepOf(LastReturnBefore(s)) < Len(templates_to_deploy(job))
        /\ \A a \in SuccessfulApplies :
              (/\ StepOf(a) < Len(templates_to_deploy(job))
               /\ \E later \in (a + 1)..Len(events) : events[later].ev = "kubectl")
              => \E s \in Settles : a < s /\ LastReturnBefore(s) = a

\* C25: no step of a deploy call, of the SFT or of the GRPO strategy,
\* successful or failed, changes the job: its name, training type, pull_latest
\* and services_only flags and configuration document, placement keys
\* included, stay as they were.
C25_DeployLeavesJobUnchanged == [][job' = job]_vars

\* A deploy that succeeded for a job whose configuration holds every
\* placement key: the artifact was written without them and the job has them.
C25_Witness ==
    /\ pc = "done" /\ result.success
    /\ {"image", "gpu", "cpu", "memory", "resources"} \subseteq DOMAIN job.config_data
    /\ ConfigMapName \in DOMAIN cluster
    /\ DOMAIN YamlLoad(cluster[ConfigMapName].data) \cap {"image", "gpu"} = {}

\* The framework and training type whose job has the name job_name.
DeployedAs(job_name) ==
    {j \in Jobs : get_job_name(j.framework, j.training_type) = job_name}

\* C26: when delete_command was given the name of a deployed job, the user
\* confirmed and the command returned 0, it has issued a delete of the
\* ConfigMap named get_configmap_name of that job's framework and training
\* type, and no ConfigMap of that name is left in the cluster.
C26_DeleteRemovesTheDeployedConfigMap ==
    \A j \in DeployedAs(cmd.job) :
        (cmd.name = "delete" /\ cpc = "exited" /\ exit_code = 0 /\ deletes # <<>>) =>
            /\ \E i \in DOMAIN deletes :
                  /\ deletes[i].kind = "configmap"
                  /\ deletes[i].name = get_configmap_name(j.framework, j.training_type)
            /\ Resource("configmap", get_configmap_name(j.framework, j.training_type))
                  \notin k8s

Consents(response) ==
    response \in {<<"y">>, <<"Y", "E", "S">>, <<" ", "y", "e", "s", " ">>}

\* C29: every kubectl delete that delete_command or its fallback for no job
\* issues names a resource cw-..., and is issued after the user answered y
\* or yes (in any letter case, blanks around it ignored) at the confirmation
\* prompt; for a job name that is not cw-..., a declined confirmation, the
\* choice q or Ctrl+C at a prompt no delete is issued; and the resources
\* that are not named cw-... stay in the cluster.
C29_DeletesOnlyConfirmedCwResources ==
    /\ \A i \in DOMAIN deletes :
          /\ StartsWith(Chars(deletes[i].name), CwPrefix)
          /\ answers # <<>> /\ Consents(answers[Len(answers)])
    /\ (cmd.name = "delete" /\ cmd.job # "" /\ ~StartsWith(Chars(cmd.job), CwPrefix))
          => deletes = <<>> /\ answers = <<>>
    /\ (answers = <<>> \/ ~Consents(answers[Len(answers)])) => deletes = <<>>
    /\ cmd.name = "delete" => Foreign \subseteq k8s

\* The fallback deleted all five resources of a GRPO deployment after a YES,
\* and the resources of others are still there.
C29_Witness ==
    /\ cmd.name = "delete" /\ cmd.job = ""
    /\ cpc = "exited" /\ exit_code = 0
    /\ choice.all
    /\ answers = <<<<"Y", "E", "S">>>>
    /\ Len(deletes) = 5
    /\ k8s = Foreign \cup {Resource("configmap", "cw-axolotl-train-grpo-config")}

\* The frames of grpo_restart_command on the call stack.
RestartFrames == {i \in DOMAIN stack : stack[i] = "grpo_restart_command"}

\* C27: for the service vllm or rewards, grpo_restart_command is entered
\* once, and when the command has returned a kubectl command has been issued.
C27_RestartIssuesCommandWithoutReentry ==
    (cmd.name = "restart" /\ valid_service(cmd.service)) =>
        /\ Cardinality(RestartFrames) <= 1
        /\ cpc = "exited" => \E i \in DOMAIN events : events[i].ev = "kubectl"

\* The keys the user overrides on the command line: the --key arguments
\* after the configuration path other than the two deployment modifiers.
UserOverrideKeys ==
    {a.key : a \in {override_args(argv)[i] : i \in DOMAIN override_args(argv)}}
       \ {"", "pull", "services"}

\* C28: the configuration document of the job, and the document written to
\* the ConfigMap, hold only keys of the loaded document and keys the user
\* overrode with --key; the modifiers --pull and --services after the
\* configuration path add no key.
C28_ModifiersAreNotOverrides ==
    cpc = "job" =>
        /\ DOMAIN mo_out.d \subseteq DOMAIN mo_config \cup UserOverrideKeys
        /\ DOMAIN prepare_config("axolotl", mo_out.d) \subseteq
              DOMAIN mo_config \cup UserOverrideKeys

\* A services-only GRPO deploy of a configuration lacking rl = 'grpo' is not
\* rejected by validation: it returns only after the apply of the ConfigMap,
\* and when it succeeded the ConfigMap and the two servers are in the
\* cluster.
ServicesOnlySkipsValidation ==
    (IsGrpo /\ job.services_only /\ LacksDiscriminator(job.config_data)) =>
        /\ ~(Returned /\ ValidationFailed)
        /\ Returned => ConfigMapApplies # {}
        /\ (Returned /\ result.success) =>
              {ConfigMapName, VllmTemplate(job.framework), RewardsTemplate(job.framework)}
                  = DOMAIN cluster

\* C30 as stated: with services_only the validation is not evaluated and the
\* deploy of a configuration lacking rl = 'grpo' goes on to the ConfigMap and
\* the two servers, while with services_only = false the same configuration
\* is rejected before any mutation, whatever the framework.
C30_Original ==
    /\ ServicesOnlySkipsValidation
    /\ (IsGrpo /\ ~job.services_only /\ LacksDiscriminator(job.config_data)) =>
          /\ NoMutation
          /\ Returned => ValidationFailed

\* C30 as amended: the rejection with services_only = false is that of the
\* Axolotl framework.
C30_ServicesOnlySkipsAxolotlValidation ==
    /\ ServicesOnlySkipsValidation
    /\ (IsGrpo /\ ~job.services_only /\ job.framework = "axolotl"
           /\ LacksDiscriminator(job.config_data)) =>
          /\ NoMutation
          /\ Returned => ValidationFailed

\* A services-only Axolotl deploy of a configuration with rl = 'ppo' that
\* succeeded.
C30_Witness ==
    /\ IsGrpo /\ job.services_only /\ job.framework = "axolotl"
    /\ "rl" \in DOMAIN job.config_data /\ job.config_data["rl"] # Grpo
    /\ Returned /\ result.success
    /\ VllmTemplate("axolotl") \in DOMAIN cluster
    /\ RewardsTemplate("axolotl") \in DOMAIN cluster

=============================================================================
